---- MODULE Spec2Model ----
(***************************************************************************)
(* A model of the path tracer under src/src/ray_tracing: the numeric       *)
(* substrate (Interval, Aabb), the intersectable family (Sphere, Quad,     *)
(* HittableList, BvhNode, Translate, RotateY, ConstantMedium), the         *)
(* MixturePDF, and the camera's integrator, pixel loop and tile loop.      *)
(*                                                                         *)
(* f64 values are modelled as exact extended rationals <<n, d>>:           *)
(*   d > 0  a finite value n/d in lowest terms,                            *)
(*   <<1, 0>> = +infinity, <<-1, 0>> = -infinity, <<0, 0>> = NaN.          *)
(* Arithmetic is exact, and inputs are drawn so that every square root the *)
(* code takes is exact; the one place rounding is modelled is the pair of  *)
(* vector additions of Translate::hit, which round to mantissa_digits      *)
(* significant bits when that is not 0.                                    *)
(***************************************************************************)
EXTENDS Integers, Sequences, FiniteSets, TLC

VARIABLES
    \* --- Aabb::merge (SpecAabb)
    boxA, boxB, boxC, mAB, mBA, mAB_C, mBC, mA_BC, apc,
    \* --- a scene and hit queries on it (SpecHit)
    world,      \* the HittableList being built
    bvh,        \* BvhNode::new(&world), once built
    phase,      \* "build" | "query"
    query_ray, query_t, \* the current query: the ray and the search interval
    rndA, rndB, \* the random source at the first and at the repeated query
    resList,    \* world.hit(ray, ray_t, rec)
    resBvh,     \* bvh.hit(ray, ray_t, rec)
    resAgain,   \* world.hit(ray, ray_t, rec) a second time
    \* --- a MixturePDF (SpecMix)
    mixture_pdf,    \* the MixturePDF constructed
    passed_weight,  \* the weight1 argument given to the constructor
    mix_direction,  \* the direction last given to value
    mix_value,      \* what value returned for it
    mix_generated,  \* which component generate delegated to
    \* --- Camera::ray_color (SpecColor)
    cam_max_depth,  \* Camera::max_depth
    cam_lights,     \* whether a light list was supplied
    call_depth,     \* the depth argument of the call in progress
    color_pc,       \* where that call is: "enter" | "intersect" | "scatter" | "return" | "panic"
    color_stack,    \* the callers waiting for it, outermost first
    rec_mat,        \* the material of the hit record of the call in progress
    color_result,   \* what the call that returned last returned
    scatter_event,  \* the last scattering decision taken
    \* --- the samples of one pixel (SpecPixel)
    samples_per_pixel,  \* Camera::samples_per_pixel
    sqrt_spp,           \* Camera::sqrt_spp, set by initialize
    pixel_pc,           \* "configured" | "sampling" | "output"
    samples_taken,      \* radiance samples added so far
    pixel_sum,          \* their sum, one colour channel
    linear_out,         \* the averaged channel the output stage goes on with
    \* --- Camera::render (SpecRender)
    image_width,    \* Camera::image_width
    aspect_ratio,   \* Camera::aspect_ratio
    image_height,   \* Camera::image_height, set by initialize
    render_pc,      \* "configured" | "tiles" | "collected" | "filled" | "saved" | "panic"
    tile_results,   \* per tile index: whether its task has run, and its results
    pixel_colors,   \* the collected (i, j, colour) triples
    img,            \* the image buffer
    save_result,    \* what img.save returned
    \* --- a light list and the BVH over it as sampling targets (SpecPdf)
    light_list,     \* the HittableList of lights
    light_bvh,      \* BvhNode::new(&light_list), once built
    pdf_origin, pdf_direction,  \* the arguments of the last pdf_value query
    pdf_list,       \* light_list.pdf_value(origin, direction)
    pdf_bvh,        \* light_bvh.pdf_value(origin, direction)
    reach_list,     \* per light: the probability that light_list.random delegates to it,
                    \* empty until asked
    reach_bvh,      \* per light: the probability that light_bvh.random delegates to it
    \* --- a translation there and back (SpecTranslate)
    mantissa_digits,    \* the significant bits Translate's f64 additions keep; 0: exact
    tr_object,      \* the object wrapped
    tr_offset,      \* the offset v
    tr_wrapped,     \* Translate::new(Translate::new(tr_object, v), -v)
    tr_ray, tr_t,   \* the query
    tr_direct,      \* tr_object.hit(tr_ray, tr_t)
    tr_round,       \* tr_wrapped.hit(tr_ray, tr_t)
    \* --- one ScatterRecord handed to materials and setters (SpecScatter)
    scatter_rec,           \* the ScatterRecord
    scatter_rec_before,    \* the record as it was before the last call
    scatter_pc,     \* "idle" | "fresh" | "set_specular" | "set_diffuse" |
                    \* "scattered" (scatter returned true) | "absorbed" (false)
    scatter_calls,  \* the calls made on the record so far
    \* --- an object built from the constructors, and its bounding box (SpecBox)
    bb_object,      \* the object built so far
    bb_wraps,       \* the wrappers put around it
    bb_result,      \* what bounding_box() returned, once asked
    \* --- an image texture and the files it is loaded from (SpecTexture)
    tex_files,      \* path -> the image that opens there, or None
    tex_env,        \* the RTW_IMAGES environment variable
    tex_texture,    \* the ImageTexture that new returned
    tex_value,      \* the last call of value: its arguments and outcome
    \* --- a ConstantMedium and one query of its hit (SpecMedium)
    md_medium,      \* the ConstantMedium
    md_density,     \* the density it was built with
    md_ray,         \* the ray of the query
    md_t,           \* the search interval of the query
    md_rnd,         \* the random source the query found
    md_result,      \* what hit returned
    \* --- a Sphere and one query of its hit (SpecSphere)
    sp_sphere,      \* the Sphere
    sp_ray,         \* the ray of the query
    sp_t,           \* the search interval of the query
    sp_result,      \* what hit returned
    \* --- one conversion of an accumulated colour to a pixel (SpecGamma)
    gm_color,       \* the accumulated linear colour
    gm_samples,     \* samples_per_pixel
    gm_rgb,         \* the bytes color_to_rgb_with_samples returned
    \* --- a list filled and cleared, and BvhNode::new on it (SpecBuild)
    bd_list,        \* the HittableList
    bd_added,       \* history: the objects added since the last clear
    bd_cleared,     \* history: clear was called
    bd_pc,          \* "adding", "building", "built"
    bd_stack,       \* the from_slice calls that are still to run
    bd_calls,       \* from_slice calls run so far
    bd_tree         \* the BvhNode that new returned

aabbVars == <<boxA, boxB, boxC, mAB, mBA, mAB_C, mBC, mA_BC, apc>>

hitVars == <<world, bvh, phase, query_ray, query_t, rndA, rndB, resList, resBvh, resAgain>>

mixVars == <<mixture_pdf, passed_weight, mix_direction, mix_value, mix_generated>>

colorVars == <<cam_max_depth, cam_lights, call_depth, color_pc, color_stack, rec_mat,
               color_result, scatter_event>>

pixelVars == <<samples_per_pixel, sqrt_spp, pixel_pc, samples_taken, pixel_sum, linear_out>>

renderVars == <<image_width, aspect_ratio, image_height, render_pc, tile_results,
                pixel_colors, img, save_result>>

pdfVars == <<light_list, light_bvh, pdf_origin, pdf_direction, pdf_list, pdf_bvh,
             reach_list, reach_bvh>>

translateVars == <<mantissa_digits, tr_object, tr_offset, tr_wrapped, tr_ray, tr_t,
                   tr_direct, tr_round>>

scatterVars == <<scatter_rec, scatter_rec_before, scatter_pc, scatter_calls>>

boxVars == <<bb_object, bb_wraps, bb_result>>

textureVars == <<tex_files, tex_env, tex_texture, tex_value>>

mediumVars == <<md_medium, md_density, md_ray, md_t, md_rnd, md_result>>

sphereVars == <<sp_sphere, sp_ray, sp_t, sp_result>>

gammaVars == <<gm_color, gm_samples, gm_rgb>>

buildVars == <<bd_list, bd_added, bd_cleared, bd_pc, bd_stack, bd_calls, bd_tree>>

vars == <<aabbVars, hitVars, mixVars, colorVars, pixelVars, renderVars, pdfVars,
          translateVars, scatterVars, boxVars, textureVars, mediumVars,
    sphereVars, gammaVars, buildVars>>

\* the variables each specification leaves alone
notAabb == <<hitVars, mixVars, colorVars, pixelVars, renderVars, pdfVars, translateVars,
    scatterVars, boxVars, textureVars, mediumVars, sphereVars, gammaVars,
    buildVars>>

notHit == <<aabbVars, mixVars, colorVars, pixelVars, renderVars, pdfVars, translateVars,
    scatterVars, boxVars, textureVars, mediumVars, sphereVars, gammaVars,
    buildVars>>

notMix == <<aabbVars, hitVars, colorVars, pixelVars, renderVars, pdfVars, translateVars,
    scatterVars, boxVars, textureVars, mediumVars, sphereVars, gammaVars,
    buildVars>>

notColor == <<aabbVars, hitVars, mixVars, pixelVars, renderVars, pdfVars, translateVars,
    scatterVars, boxVars, textureVars, mediumVars, sphereVars, gammaVars,
    buildVars>>

notPixel == <<aabbVars, hitVars, mixVars, colorVars, renderVars, pdfVars, translateVars,
    scatterVars, boxVars, textureVars, mediumVars, sphereVars, gammaVars,
    buildVars>>

notRender == <<aabbVars, hitVars, mixVars, colorVars, pixelVars, pdfVars, translateVars,
    scatterVars, boxVars, textureVars, mediumVars, sphereVars, gammaVars,
    buildVars>>

notPdf == <<aabbVars, hitVars, mixVars, colorVars, pixelVars, renderVars, translateVars,
    scatterVars, boxVars, textureVars, mediumVars, sphereVars, gammaVars,
    buildVars>>

notTranslate == <<aabbVars, hitVars, mixVars, colorVars, pixelVars, renderVars, pdfVars,
    scatterVars, boxVars, textureVars, mediumVars, sphereVars, gammaVars,
    buildVars>>

notScatter == <<aabbVars, hitVars, mixVars, colorVars, pixelVars, renderVars, pdfVars, translateVars,
    boxVars, textureVars, mediumVars, sphereVars, gammaVars, buildVars>>

notBox == <<aabbVars, hitVars, mixVars, colorVars, pixelVars, renderVars, pdfVars, translateVars, scatterVars,
    textureVars, mediumVars, sphereVars, gammaVars, buildVars>>

notTexture == <<aabbVars, hitVars, mixVars, colorVars, pixelVars, renderVars, pdfVars, translateVars, scatterVars, boxVars,
    mediumVars, sphereVars, gammaVars, buildVars>>

notMedium == <<aabbVars, hitVars, mixVars, colorVars, pixelVars, renderVars, pdfVars, translateVars, scatterVars, boxVars, textureVars,
    sphereVars, gammaVars, buildVars>>

notSphere == <<aabbVars, hitVars, mixVars, colorVars, pixelVars, renderVars, pdfVars, translateVars, scatterVars, boxVars, textureVars, mediumVars,
    gammaVars, buildVars>>

notGamma == <<aabbVars, hitVars, mixVars, colorVars, pixelVars, renderVars, pdfVars, translateVars, scatterVars, boxVars, textureVars, mediumVars, sphereVars,
    buildVars>>

notBuild == <<aabbVars, hitVars, mixVars, colorVars, pixelVars, renderVars, pdfVars, translateVars, scatterVars, boxVars, textureVars, mediumVars, sphereVars, gammaVars>>

----------------------------------------------------------------------------
(* f64 arithmetic as exact extended rationals *)

Abs(x) == IF x < 0 THEN -x ELSE x

Sgn(x) == IF x < 0 THEN -1 ELSE IF x > 0 THEN 1 ELSE 0

RECURSIVE GCD(_, _)
RECURSIVE Pow2(_)
RECURSIVE RoundScaled(_, _, _, _, _)
GCD(a, b) == IF b = 0 THEN a ELSE GCD(b, a % b)

\* the f64 with value n/d (d = 0: an infinity or NaN), in canonical form
Q(n, d) ==
    IF d = 0 THEN <<Sgn(n), 0>>
    ELSE LET g == GCD(Abs(n), Abs(d))
         IN  <<(Sgn(d) * n) \div g, Abs(d) \div g>>

I(n) == <<n, 1>>

INFINITY == <<1, 0>>

NEG_INFINITY == <<-1, 0>>

NAN == <<0, 0>>

IsNaN(a) == a[1] = 0 /\ a[2] = 0

IsFinite(a) == a[2] # 0

QNeg(a) == <<-a[1], a[2]>>

\* IEEE addition: inf + (-inf) = NaN
QAdd(a, b) ==
    IF a[2] # 0 /\ b[2] # 0
    THEN LET g == GCD(a[2], b[2])
         IN  Q(a[1] * (b[2] \div g) + b[1] * (a[2] \div g), (a[2] \div g) * b[2])
    ELSE IF IsNaN(a) \/ IsNaN(b) THEN NAN
    ELSE IF a[2] = 0 /\ b[2] = 0 THEN (IF a[1] = b[1] THEN a ELSE NAN)
    ELSE IF a[2] = 0 THEN a ELSE b

QSub(a, b) == QAdd(a, QNeg(b))

\* IEEE multiplication: 0 * inf = NaN
QMul(a, b) ==
    IF a[2] # 0 /\ b[2] # 0
    THEN LET g1 == GCD(Abs(a[1]), b[2])
             g2 == GCD(Abs(b[1]), a[2])
         IN  Q((a[1] \div g1) * (b[1] \div g2), (a[2] \div g2) * (b[2] \div g1))
    ELSE IF IsNaN(a) \/ IsNaN(b) THEN NAN
    ELSE <<Sgn(a[1]) * Sgn(b[1]), 0>>

\* IEEE division: x / 0 = +-inf, 0 / 0 = NaN, x / inf = 0, inf / inf = NaN
QDiv(a, b) ==
    IF a[2] # 0 /\ b[2] # 0
    THEN IF b[1] = 0 THEN <<Sgn(a[1]), 0>>
         ELSE QMul(a, <<Sgn(b[1]) * b[2], Abs(b[1])>>)
    ELSE IF IsNaN(a) \/ IsNaN(b) THEN NAN
    ELSE IF a[2] = 0 /\ b[2] = 0 THEN NAN
    ELSE IF a[2] = 0 THEN <<a[1] * (IF b[1] < 0 THEN -1 ELSE 1), 0>>
    ELSE I(0)

\* a < b; false when either is NaN
QLt(a, b) ==
    /\ ~IsNaN(a)
    /\ ~IsNaN(b)
    /\ IF a[2] = 0 \/ b[2] = 0
       THEN (IF a[2] = 0 /\ b[2] = 0 THEN a[1] < b[1] ELSE a[1] * b[2] < b[1] * a[2])
       ELSE LET g == GCD(a[2], b[2])
            IN  a[1] * (b[2] \div g) < b[1] * (a[2] \div g)

\* a <= b; false when either is NaN
QLe(a, b) ==
    /\ ~IsNaN(a)
    /\ ~IsNaN(b)
    /\ IF a[2] = 0 \/ b[2] = 0
       THEN (IF a[2] = 0 /\ b[2] = 0 THEN a[1] <= b[1] ELSE a[1] * b[2] <= b[1] * a[2])
       ELSE LET g == GCD(a[2], b[2])
            IN  a[1] * (b[2] \div g) <= b[1] * (a[2] \div g)

\* f64::min: the other operand when one is NaN
QMin(a, b) == IF IsNaN(a) THEN b ELSE IF IsNaN(b) THEN a ELSE IF QLt(b, a) THEN b ELSE a

\* f64::max: the other operand when one is NaN
QMax(a, b) == IF IsNaN(a) THEN b ELSE IF IsNaN(b) THEN a ELSE IF QLt(a, b) THEN b ELSE a

QAbs(a) == <<Abs(a[1]), a[2]>>

\* 2^k
Pow2(k) == IF k = 0 THEN 1 ELSE 2 * Pow2(k - 1)

\* n/d rounded to the nearest integer, ties to even (n >= 0, d > 0)
RoundHalfEven(n, d) ==
    LET q == n \div d
        r == n % d
    IN  IF 2 * r < d THEN q
        ELSE IF 2 * r > d THEN q + 1
        ELSE IF q % 2 = 0 THEN q ELSE q + 1

\* n/d * up/down with n/d brought into [2^(digits-1), 2^digits) and rounded
\* to an integer there (n > 0, d > 0)
RoundScaled(n, d, up, down, digits) ==
    IF n >= Pow2(digits) * d THEN RoundScaled(n, 2 * d, 2 * up, down, digits)
    ELSE IF n < Pow2(digits - 1) * d THEN RoundScaled(2 * n, d, up, 2 * down, digits)
    ELSE Q(RoundHalfEven(n, d) * up, down)

\* the nearest binary floating-point value with `digits` significant bits
\* (f64: 53), ties to even; exponent range unbounded
RoundTo(a, digits) ==
    IF a[2] = 0 \/ a[1] = 0 THEN a
    ELSE LET m == RoundScaled(Abs(a[1]), a[2], 1, 1, digits)
         IN  <<Sgn(a[1]) * m[1], m[2]>>

\* the result of an f64 operation whose exact value is a
Fl(a) == IF mantissa_digits = 0 THEN a ELSE RoundTo(a, mantissa_digits)

----------------------------------------------------------------------------
(* math/interval.rs *)

Interval(min, max) == [min |-> min, max |-> max]

IntervalEmpty == Interval(INFINITY, NEG_INFINITY)

IntervalUniverse == Interval(NEG_INFINITY, INFINITY)

IntervalSize(iv) == QSub(iv.max, iv.min)

IntervalContains(iv, x) == QLe(iv.min, x) /\ QLe(x, iv.max)

\* a plausible slip: the bounds themselves are surrounded
IntervalSurroundsSlip(iv, x) == QLe(iv.min, x) /\ QLe(x, iv.max)

IntervalSurrounds(iv, x) == QLt(iv.min, x) /\ QLt(x, iv.max)

IntervalExpand(iv, delta) ==
    LET padding == QDiv(delta, I(2))
    IN  Interval(QSub(iv.min, padding), QAdd(iv.max, padding))

\* a plausible slip: the upper bound merged with the other's lower bound
IntervalMergeSlip(a, b) == Interval(QMin(a.min, b.min), QMax(a.max, b.min))

IntervalMerge(a, b) == Interval(QMin(a.min, b.min), QMax(a.max, b.max))

----------------------------------------------------------------------------
(* math/aabb.rs *)

Aabb(x, y, z) == [x |-> x, y |-> y, z |-> z]

AabbEmpty == Aabb(IntervalEmpty, IntervalEmpty, IntervalEmpty)

AabbUniverse == Aabb(IntervalUniverse, IntervalUniverse, IntervalUniverse)

\* DELTA of pad_to_minimums, 0.0001
PadDenominator == 10000

DELTA == Q(1, PadDenominator)

PadToMinimums(b) ==
    Aabb(IF QLt(IntervalSize(b.x), DELTA) THEN IntervalExpand(b.x, DELTA) ELSE b.x,
         IF QLt(IntervalSize(b.y), DELTA) THEN IntervalExpand(b.y, DELTA) ELSE b.y,
         IF QLt(IntervalSize(b.z), DELTA) THEN IntervalExpand(b.z, DELTA) ELSE b.z)

OrderedInterval(a, b) == IF QLe(a, b) THEN Interval(a, b) ELSE Interval(b, a)

\* Aabb::new_point; points are <<x, y, z>>
AabbNewPoint(a, b) ==
    PadToMinimums(Aabb(OrderedInterval(a[1], b[1]),
                       OrderedInterval(a[2], b[2]),
                       OrderedInterval(a[3], b[3])))

AxisInterval(b, axis) == IF axis = 0 THEN b.x ELSE IF axis = 1 THEN b.y ELSE b.z

LongestAxis(b) ==
    LET xs == IntervalSize(b.x)
        ys == IntervalSize(b.y)
        zs == IntervalSize(b.z)
    IN  IF QLe(ys, xs) /\ QLe(zs, xs) THEN 0
        ELSE IF QLe(zs, ys) THEN 1
        ELSE 2

AabbMerge(a, b) ==
    Aabb(IntervalMerge(a.x, b.x), IntervalMerge(a.y, b.y), IntervalMerge(a.z, b.z))

\* a box's interval on every axis contains the other's
IntervalWithin(inner, outer) == QLe(outer.min, inner.min) /\ QLe(inner.max, outer.max)

AabbWithin(inner, outer) ==
    /\ IntervalWithin(inner.x, outer.x)
    /\ IntervalWithin(inner.y, outer.y)
    /\ IntervalWithin(inner.z, outer.z)

----------------------------------------------------------------------------
(* math/vec3.rs, math/ray.rs: vectors and points are <<x, y, z>> *)

P3(x, y, z) == <<I(x), I(y), I(z)>>

VZero == P3(0, 0, 0)

VAdd(a, b) == <<QAdd(a[1], b[1]), QAdd(a[2], b[2]), QAdd(a[3], b[3])>>

VSub(a, b) == <<QSub(a[1], b[1]), QSub(a[2], b[2]), QSub(a[3], b[3])>>

VNeg(a) == <<QNeg(a[1]), QNeg(a[2]), QNeg(a[3])>>

\* a vector of f64 results: each component rounded as the f64 operation rounds it
VRound(a) == <<Fl(a[1]), Fl(a[2]), Fl(a[3])>>

VScale(a, k) == <<QMul(a[1], k), QMul(a[2], k), QMul(a[3], k)>>

VDivide(a, k) == <<QDiv(a[1], k), QDiv(a[2], k), QDiv(a[3], k)>>

VDot(a, b) == QAdd(QAdd(QMul(a[1], b[1]), QMul(a[2], b[2])), QMul(a[3], b[3]))

VCross(a, b) ==
    <<QSub(QMul(a[2], b[3]), QMul(a[3], b[2])),
      QSub(QMul(a[3], b[1]), QMul(a[1], b[3])),
      QSub(QMul(a[1], b[2]), QMul(a[2], b[1]))>>

NormSquared(a) == VDot(a, a)

RECURSIVE ISqrtBetween(_, _, _)
\* the k with lo <= k < hi and k * k <= n < (k + 1) * (k + 1), by bisection
ISqrtBetween(n, lo, hi) ==
    IF hi - lo <= 1 THEN lo
    ELSE LET mid == (lo + hi) \div 2
         IN  IF mid * mid <= n THEN ISqrtBetween(n, mid, hi) ELSE ISqrtBetween(n, lo, mid)

\* floor of the square root of a natural number (below 2^31)
ISqrt(n) == ISqrtBetween(n, 0, IF n < 46340 THEN n + 1 ELSE 46341)

IsSquare(n) == n >= 0 /\ ISqrt(n) * ISqrt(n) = n

\* the square root is a rational, so f64::sqrt is modelled exactly
SqrtExact(a) == IsFinite(a) /\ IsSquare(a[1]) /\ IsSquare(a[2])

\* f64::sqrt: NaN below zero, exact on the squares of rationals
QSqrt(a) ==
    IF IsNaN(a) \/ a[1] < 0 THEN NAN
    ELSE IF a[2] = 0 THEN a
    ELSE Q(ISqrt(a[1]), ISqrt(a[2]))

Norm(a) == QSqrt(NormSquared(a))

Normalize(a) == VDivide(a, Norm(a))

Ray(orig, dir, time) == [orig |-> orig, dir |-> dir, time |-> time]

RayAt(r, t) == VAdd(r.orig, VScale(r.dir, t))

\* the thresholds the code compares against
Eps8 == Q(1, 100000000)

TMinBias == Q(1, 1000)

----------------------------------------------------------------------------
(* geometry/hittable.rs: HitRecord *)

\* texture coordinates: a number, or the acos/atan2 expression of
\* get_sphere_uv kept as a term over its argument
UVal(q) == [f |-> "val", x |-> <<q, I(0), I(0)>>]

SphereU(p) == [f |-> "sphere_u", x |-> p]

SphereV(p) == [f |-> "sphere_v", x |-> p]

HitRecordDefault ==
    [p |-> VZero, normal |-> VZero, mat |-> "NoMaterial", t |-> I(0),
     u |-> UVal(I(0)), v |-> UVal(I(0)), front_face |-> FALSE]

\* a plausible slip: the normal is kept as given when it faces away
SetFaceNormalSlip(rec, r, outward_normal) ==
    LET ff == QLt(VDot(r.dir, outward_normal), I(0))
    IN  [rec EXCEPT !.front_face = ff, !.normal = outward_normal]

SetFaceNormal(rec, r, outward_normal) ==
    LET ff == QLt(VDot(r.dir, outward_normal), I(0))
    IN  [rec EXCEPT !.front_face = ff,
                    !.normal = IF ff THEN outward_normal ELSE VNeg(outward_normal)]

\* what a hit call hands back: the answer, the caller's record as the call
\* left it, and the random source as the call left it
HitResult(hit, rec, rnd) == [hit |-> hit, rec |-> rec, rnd |-> rnd]

\* the random source: the values ln(random_double()) will take, in order,
\* repeated cyclically
RndSource(draws) == [draws |-> draws, pos |-> 0]

NextLn(rnd) == rnd.draws[(rnd.pos % Len(rnd.draws)) + 1]

Advance(rnd) == [rnd EXCEPT !.pos = (rnd.pos + 1) % Len(rnd.draws)]

----------------------------------------------------------------------------
(* geometry/sphere.rs *)

SphereNew(center, radius, mat) ==
    LET rvec == <<radius, radius, radius>>
    IN  [kind |-> "sphere", center |-> Ray(center, VZero, I(0)), radius |-> radius,
         mat |-> mat, bbox |-> AabbNewPoint(VSub(center, rvec), VAdd(center, rvec))]

SphereNewMoving(center0, center1, radius, mat) ==
    LET rvec == <<radius, radius, radius>>
        box0 == AabbNewPoint(VSub(center0, rvec), VAdd(center0, rvec))
        box1 == AabbNewPoint(VSub(center1, rvec), VAdd(center1, rvec))
    IN  [kind |-> "sphere", center |-> Ray(center0, VSub(center1, center0), I(0)),
         radius |-> radius, mat |-> mat, bbox |-> AabbMerge(box0, box1)]

SphereDiscriminant(s, r) ==
    LET oc == VSub(r.orig, RayAt(s.center, r.time))
        half_b == VDot(oc, r.dir)
    IN  QSub(QMul(half_b, half_b),
             QMul(NormSquared(r.dir), QSub(NormSquared(oc), QMul(s.radius, s.radius))))

\* a plausible slip: the far root is accepted without the interval test
SphereHitSlip(s, r, ray_t, rec, rnd) ==
    LET current_center == RayAt(s.center, r.time)
        oc == VSub(r.orig, current_center)
        a == NormSquared(r.dir)
        half_b == VDot(oc, r.dir)
        discriminant == SphereDiscriminant(s, r)
        sqrtd == QSqrt(discriminant)
        root1 == QDiv(QSub(QNeg(half_b), sqrtd), a)
        root2 == QDiv(QAdd(QNeg(half_b), sqrtd), a)
        root == IF IntervalSurrounds(ray_t, root1) THEN root1 ELSE root2
        p == RayAt(r, root)
        outward_normal == VDivide(VSub(p, current_center), s.radius)
    IN  IF QLt(discriminant, I(0)) THEN HitResult(FALSE, rec, rnd)
        ELSE HitResult(TRUE,
                 [SetFaceNormal(rec, r, outward_normal) EXCEPT
                     !.t = root, !.p = p, !.u = SphereU(outward_normal),
                     !.v = SphereV(outward_normal), !.mat = s.mat],
                 rnd)

\* a plausible slip: the centre is taken at a time drawn on every query (a
\* function of the next draw) and not at the ray's own time
SphereHitDrawn(s, r, ray_t, rec, rnd) ==
    LET current_center == RayAt(s.center, QDiv(I(-1), NextLn(rnd)))
        oc == VSub(r.orig, current_center)
        a == NormSquared(r.dir)
        half_b == VDot(oc, r.dir)
        discriminant == QSub(QMul(half_b, half_b),
                             QMul(a, QSub(NormSquared(oc), QMul(s.radius, s.radius))))
        sqrtd == QSqrt(discriminant)
        root1 == QDiv(QSub(QNeg(half_b), sqrtd), a)
        root2 == QDiv(QAdd(QNeg(half_b), sqrtd), a)
        root == IF IntervalSurrounds(ray_t, root1) THEN root1 ELSE root2
        p == RayAt(r, root)
        outward_normal == VDivide(VSub(p, current_center), s.radius)
    IN  IF QLt(discriminant, I(0)) THEN HitResult(FALSE, rec, rnd)
        ELSE IF ~IntervalSurrounds(ray_t, root1) /\ ~IntervalSurrounds(ray_t, root2)
        THEN HitResult(FALSE, rec, rnd)
        ELSE HitResult(TRUE,
                 [SetFaceNormal(rec, r, outward_normal) EXCEPT
                     !.t = root, !.p = p, !.u = SphereU(outward_normal),
                     !.v = SphereV(outward_normal), !.mat = s.mat],
                 rnd)

SphereHit(s, r, ray_t, rec, rnd) ==
    LET current_center == RayAt(s.center, r.time)
        oc == VSub(r.orig, current_center)
        a == NormSquared(r.dir)
        half_b == VDot(oc, r.dir)
        discriminant == SphereDiscriminant(s, r)
        sqrtd == QSqrt(discriminant)
        root1 == QDiv(QSub(QNeg(half_b), sqrtd), a)
        root2 == QDiv(QAdd(QNeg(half_b), sqrtd), a)
        root == IF IntervalSurrounds(ray_t, root1) THEN root1 ELSE root2
        p == RayAt(r, root)
        outward_normal == VDivide(VSub(p, current_center), s.radius)
    IN  IF QLt(discriminant, I(0)) THEN HitResult(FALSE, rec, rnd)
        ELSE IF ~IntervalSurrounds(ray_t, root1) /\ ~IntervalSurrounds(ray_t, root2)
        THEN HitResult(FALSE, rec, rnd)
        ELSE HitResult(TRUE,
                 [SetFaceNormal(rec, r, outward_normal) EXCEPT
                     !.t = root, !.p = p, !.u = SphereU(outward_normal),
                     !.v = SphereV(outward_normal), !.mat = s.mat],
                 rnd)

----------------------------------------------------------------------------
(* geometry/quad.rs *)

QuadNew(q, u, v, mat) ==
    LET n == VCross(u, v)
        normal == Normalize(n)
    IN  [kind |-> "quad", q |-> q, u |-> u, v |-> v, mat |-> mat,
         bbox |-> AabbMerge(AabbNewPoint(q, VAdd(VAdd(q, u), v)),
                            AabbNewPoint(VAdd(q, u), VAdd(q, v))),
         normal |-> normal, d |-> VDot(normal, q),
         w |-> VDivide(n, VDot(n, n)), area |-> Norm(n)]

UnitContains(a) == QLe(I(0), a) /\ QLe(a, I(1))

\* a plausible slip: u and v are stored before the interior test
QuadHitSlip(s, r, ray_t, rec, rnd) ==
    LET denom == VDot(s.normal, r.dir)
        t == QDiv(QSub(s.d, VDot(s.normal, r.orig)), denom)
        intersection == RayAt(r, t)
        planar_hitpt_vector == VSub(intersection, s.q)
        alpha == VDot(s.w, VCross(planar_hitpt_vector, s.v))
        beta == VDot(s.w, VCross(s.u, planar_hitpt_vector))
        written == [rec EXCEPT !.u = UVal(alpha), !.v = UVal(beta)]
    IN  IF QLt(QAbs(denom), Eps8) THEN HitResult(FALSE, rec, rnd)
        ELSE IF ~IntervalContains(ray_t, t) THEN HitResult(FALSE, rec, rnd)
        ELSE IF ~UnitContains(alpha) \/ ~UnitContains(beta) THEN HitResult(FALSE, written, rnd)
        ELSE HitResult(TRUE,
                 SetFaceNormal([written EXCEPT !.t = t, !.p = intersection, !.mat = s.mat],
                               r, s.normal),
                 rnd)

QuadHit(s, r, ray_t, rec, rnd) ==
    LET denom == VDot(s.normal, r.dir)
        t == QDiv(QSub(s.d, VDot(s.normal, r.orig)), denom)
        intersection == RayAt(r, t)
        planar_hitpt_vector == VSub(intersection, s.q)
        alpha == VDot(s.w, VCross(planar_hitpt_vector, s.v))
        beta == VDot(s.w, VCross(s.u, planar_hitpt_vector))
    IN  IF QLt(QAbs(denom), Eps8) THEN HitResult(FALSE, rec, rnd)
        ELSE IF ~IntervalContains(ray_t, t) THEN HitResult(FALSE, rec, rnd)
        ELSE IF ~UnitContains(alpha) \/ ~UnitContains(beta) THEN HitResult(FALSE, rec, rnd)
        ELSE HitResult(TRUE,
                 SetFaceNormal([rec EXCEPT !.u = UVal(alpha), !.v = UVal(beta),
                                           !.t = t, !.p = intersection, !.mat = s.mat],
                               r, s.normal),
                 rnd)

----------------------------------------------------------------------------
(* math/aabb.rs: Aabb::hit, the slab test *)

None == [none |-> TRUE]

RECURSIVE AabbHitAxis(_, _, _, _)
AabbHitAxis(b, ray, ray_t, axis) ==
    IF axis = 3 THEN TRUE
    ELSE LET ax == AxisInterval(b, axis)
             ray_dir_component == ray.dir[axis + 1]
             adinv == QDiv(I(1), ray_dir_component)
             ray_orig_component == ray.orig[axis + 1]
             t0 == QMul(QSub(ax.min, ray_orig_component), adinv)
             t1 == QMul(QSub(ax.max, ray_orig_component), adinv)
             t_min == IF QLe(I(0), adinv) THEN t0 ELSE t1
             t_max == IF QLe(I(0), adinv) THEN t1 ELSE t0
             nt == Interval(QMax(ray_t.min, t_min), QMin(ray_t.max, t_max))
         IN  IF QLt(QAbs(ray_dir_component), Eps8) THEN AabbHitAxis(b, ray, ray_t, axis + 1)
             ELSE IF QLe(nt.max, nt.min) THEN FALSE
             ELSE AabbHitAxis(b, ray, nt, axis + 1)

AabbHit(b, ray, ray_t) == AabbHitAxis(b, ray, ray_t, 0)

\* impl Add<Vec3> for Aabb
AabbTranslate(b, offset) ==
    Aabb(Interval(QAdd(b.x.min, offset[1]), QAdd(b.x.max, offset[1])),
         Interval(QAdd(b.y.min, offset[2]), QAdd(b.y.max, offset[2])),
         Interval(QAdd(b.z.min, offset[3]), QAdd(b.z.max, offset[3])))

----------------------------------------------------------------------------
(* the Hittable family: bounding_box *)

RECURSIVE BoundingBox(_)
BoundingBox(obj) ==
    CASE obj.kind = "sphere" -> obj.bbox
      [] obj.kind = "quad" -> obj.bbox
      [] obj.kind = "list" -> IF Len(obj.objects) = 0 THEN None ELSE obj.bbox
      [] obj.kind = "bvh" -> obj.bbox
      [] obj.kind = "translate" -> obj.bbox
      [] obj.kind = "rotate_y" -> obj.bbox
      [] obj.kind = "medium" -> BoundingBox(obj.boundary)

\* bounding_box().unwrap_or_default()
BoundingBoxOrDefault(obj) == IF BoundingBox(obj) = None THEN AabbEmpty ELSE BoundingBox(obj)

----------------------------------------------------------------------------
(* geometry/hittable_list.rs: new, add, clear *)

HittableListNew == [kind |-> "list", objects |-> <<>>, bbox |-> AabbEmpty]

HittableListAdd(list, object) ==
    [list EXCEPT
        !.bbox = IF BoundingBox(object) = None THEN list.bbox
                 ELSE IF Len(list.objects) = 0 THEN BoundingBox(object)
                 ELSE AabbMerge(list.bbox, BoundingBox(object)),
        !.objects = Append(list.objects, object)]

\* a plausible slip: the box of the cleared objects is kept
HittableListClearSlip(list) == [list EXCEPT !.objects = <<>>]

HittableListClear(list) == [list EXCEPT !.objects = <<>>, !.bbox = AabbEmpty]

RECURSIVE ListOf(_)
\* a list built by adding the objects in order (FromIterator)
ListOf(objs) ==
    IF Len(objs) = 0 THEN HittableListNew
    ELSE HittableListAdd(ListOf(SubSeq(objs, 1, Len(objs) - 1)), objs[Len(objs)])

----------------------------------------------------------------------------
(* geometry/quad.rs: box_new *)

BoxNew(a, b, mat) ==
    LET min == <<QMin(a[1], b[1]), QMin(a[2], b[2]), QMin(a[3], b[3])>>
        max == <<QMax(a[1], b[1]), QMax(a[2], b[2]), QMax(a[3], b[3])>>
        dx == <<QSub(max[1], min[1]), I(0), I(0)>>
        dy == <<I(0), QSub(max[2], min[2]), I(0)>>
        dz == <<I(0), I(0), QSub(max[3], min[3])>>
    IN  ListOf(<<QuadNew(<<min[1], min[2], max[3]>>, dx, dy, mat),
                 QuadNew(<<max[1], min[2], max[3]>>, VNeg(dz), dy, mat),
                 QuadNew(<<max[1], min[2], min[3]>>, VNeg(dx), dy, mat),
                 QuadNew(<<min[1], min[2], min[3]>>, dz, dy, mat),
                 QuadNew(<<min[1], max[2], max[3]>>, dx, VNeg(dz), mat),
                 QuadNew(<<min[1], min[2], min[3]>>, dx, dz, mat)>>)

----------------------------------------------------------------------------
(* geometry/transforms, volumes: constructors *)

TranslateNew(object, offset) ==
    [kind |-> "translate", object |-> object, offset |-> offset,
     bbox |-> IF BoundingBox(object) = None THEN AabbEmpty
              ELSE AabbTranslate(BoundingBox(object), offset)]

\* the rotated corner (i, j, k) of a box
RotatedCorner(b, sin_theta, cos_theta, i, j, k) ==
    LET x == QAdd(QMul(I(i), b.x.max), QMul(I(1 - i), b.x.min))
        y == QAdd(QMul(I(j), b.y.max), QMul(I(1 - j), b.y.min))
        z == QAdd(QMul(I(k), b.z.max), QMul(I(1 - k), b.z.min))
    IN  <<QAdd(QMul(cos_theta, x), QMul(sin_theta, z)),
          y,
          QAdd(QMul(QNeg(sin_theta), x), QMul(cos_theta, z))>>

RECURSIVE CornerFold(_, _, _, _, _)
\* the loops over i, j, k in 0..2, as one loop over n = 4i + 2j + k
CornerFold(b, sin_theta, cos_theta, n, acc) ==
    IF n = 8 THEN acc
    ELSE LET tester == RotatedCorner(b, sin_theta, cos_theta,
                                     n \div 4, (n \div 2) % 2, n % 2)
         IN  CornerFold(b, sin_theta, cos_theta, n + 1,
                 [min |-> <<QMin(acc.min[1], tester[1]), QMin(acc.min[2], tester[2]),
                            QMin(acc.min[3], tester[3])>>,
                  max |-> <<QMax(acc.max[1], tester[1]), QMax(acc.max[2], tester[2]),
                            QMax(acc.max[3], tester[3])>>])

\* RotateY::new, given the sine and cosine of the angle
RotateYNew(object, sin_theta, cos_theta) ==
    [kind |-> "rotate_y", object |-> object, sin_theta |-> sin_theta,
     cos_theta |-> cos_theta,
     bbox |-> IF BoundingBox(object) = None THEN AabbEmpty
              ELSE LET e == CornerFold(BoundingBox(object), sin_theta, cos_theta, 0,
                                [min |-> <<INFINITY, INFINITY, INFINITY>>,
                                 max |-> <<NEG_INFINITY, NEG_INFINITY, NEG_INFINITY>>])
                   IN  AabbNewPoint(e.min, e.max)]

WorldToLocal(o, p) ==
    <<QSub(QMul(o.cos_theta, p[1]), QMul(o.sin_theta, p[3])),
      p[2],
      QAdd(QMul(o.sin_theta, p[1]), QMul(o.cos_theta, p[3]))>>

LocalToWorld(o, p) ==
    <<QAdd(QMul(o.cos_theta, p[1]), QMul(o.sin_theta, p[3])),
      p[2],
      QAdd(QMul(QNeg(o.sin_theta), p[1]), QMul(o.cos_theta, p[3]))>>

ConstantMediumNew(boundary, density, phase_function) ==
    [kind |-> "medium", boundary |-> boundary,
     neg_inv_density |-> QDiv(I(-1), density),
     phase_function |-> phase_function]

\* the margin past the entry point at which the exit is searched, 0.0001
ExitBias == Q(1, 10000)

----------------------------------------------------------------------------
(* acceleration/bvh.rs: BvhNode::new, from_slice, box_compare *)

\* box_compare(a, b, axis) == Ordering::Less
BoxLess(a, b, axis) ==
    QLt(AxisInterval(BoundingBoxOrDefault(a), axis).min,
        AxisInterval(BoundingBoxOrDefault(b), axis).min)

RECURSIVE InsertSorted(_, _, _)
\* x placed after every element that does not compare greater than it
InsertSorted(sorted, x, axis) ==
    IF Len(sorted) = 0 THEN <<x>>
    ELSE IF BoxLess(x, sorted[Len(sorted)], axis)
         THEN Append(InsertSorted(SubSeq(sorted, 1, Len(sorted) - 1), x, axis),
                     sorted[Len(sorted)])
         ELSE Append(sorted, x)

\* a plausible slip: the slice is split as it came, without the sort
SortByBoxSlip(objs, axis) == objs

RECURSIVE SortByBox(_, _)
\* slice::sort_by(box_compare), a stable sort
SortByBox(objs, axis) ==
    IF Len(objs) = 0 THEN <<>>
    ELSE InsertSorted(SortByBox(SubSeq(objs, 1, Len(objs) - 1), axis), objs[Len(objs)], axis)

RECURSIVE SliceBox(_, _)
SliceBox(objs, acc) ==
    IF Len(objs) = 0 THEN acc
    ELSE SliceBox(Tail(objs),
                  IF BoundingBox(Head(objs)) = None THEN acc
                  ELSE AabbMerge(acc, BoundingBox(Head(objs))))

RECURSIVE FromSlice(_, _, _)
\* start and end are 0-based, end exclusive; called on non-empty slices
FromSlice(objects, start, end) ==
    LET slice == SubSeq(objects, start + 1, end)
        bbox == SliceBox(slice, AabbEmpty)
        object_span == end - start
        axis == LongestAxis(bbox)
    IN  IF object_span = 1
        THEN [kind |-> "bvh", left |-> slice[1], right |-> slice[1], bbox |-> bbox]
        ELSE IF object_span = 2
        THEN IF BoxLess(slice[1], slice[2], axis)
             THEN [kind |-> "bvh", left |-> slice[1], right |-> slice[2], bbox |-> bbox]
             ELSE [kind |-> "bvh", left |-> slice[2], right |-> slice[1], bbox |-> bbox]
        ELSE LET sorted_objects == SortByBox(slice, axis)
                 mid == object_span \div 2
             IN  [kind |-> "bvh",
                  left |-> FromSlice(sorted_objects, 0, mid),
                  right |-> FromSlice(sorted_objects, mid, Len(sorted_objects)),
                  bbox |-> bbox]

BvhNodeNew(list) == FromSlice(list.objects, 0, Len(list.objects))

----------------------------------------------------------------------------
(* the Hittable family: hit *)

RECURSIVE Hit(_, _, _, _, _)
RECURSIVE ListHitFrom(_, _, _, _, _)

\* a plausible slip: every child is asked about the caller's whole interval
ChildIntervalSlip(ray_t, closest_so_far) == ray_t

\* Interval::new(ray_t.min, closest_so_far)
ChildInterval(ray_t, closest_so_far) == Interval(ray_t.min, closest_so_far)

\* the loop of HittableList::hit from child i on; st holds the loop's
\* temp_rec, hit_anything, closest_so_far, the caller's rec and the random
\* source, and queries, the interval and the random source each child was
\* asked with so far
ListHitFrom(objects, i, r, ray_t, st) ==
    IF i > Len(objects) THEN st
    ELSE LET asked == ChildInterval(ray_t, st.closest_so_far)
             c == Hit(objects[i], r, asked, st.temp_rec, st.rnd)
             queries == Append(st.queries, [ray_t |-> asked, rnd |-> st.rnd])
         IN  IF c.hit
             THEN ListHitFrom(objects, i + 1, r, ray_t,
                      [temp_rec |-> c.rec, hit_anything |-> TRUE,
                       closest_so_far |-> c.rec.t, rec |-> c.rec, rnd |-> c.rnd,
                       queries |-> queries])
             ELSE ListHitFrom(objects, i + 1, r, ray_t,
                      [st EXCEPT !.temp_rec = c.rec, !.rnd = c.rnd, !.queries = queries])

\* the start of the loop
ListHitStart(ray_t, rec, rnd) ==
    [temp_rec |-> HitRecordDefault, hit_anything |-> FALSE,
     closest_so_far |-> ray_t.max, rec |-> rec, rnd |-> rnd, queries |-> <<>>]

HittableListHit(o, r, ray_t, rec, rnd) ==
    LET st == ListHitFrom(o.objects, 1, r, ray_t, ListHitStart(ray_t, rec, rnd))
    IN  HitResult(st.hit_anything, st.rec, st.rnd)

\* the calls BvhNode::hit makes to its children's hit, in order: the child,
\* the interval it is asked with and what the call returned
BvhChildCalls(o, r, ray_t, rec, rnd) ==
    IF ~AabbHit(o.bbox, r, ray_t) THEN <<>>
    ELSE LET l == Hit(o.left, r, ray_t, rec, rnd)
             right_interval == IF l.hit THEN Interval(ray_t.min, l.rec.t) ELSE ray_t
             rr == Hit(o.right, r, right_interval, l.rec, l.rnd)
         IN  <<[object |-> o.left, ray_t |-> ray_t, returned |-> l],
               [object |-> o.right, ray_t |-> right_interval, returned |-> rr]>>

BvhNodeHit(o, r, ray_t, rec, rnd) ==
    LET calls == BvhChildCalls(o, r, ray_t, rec, rnd)
    IN  IF Len(calls) = 0 THEN HitResult(FALSE, rec, rnd)
        ELSE HitResult(calls[1].returned.hit \/ calls[2].returned.hit,
                       calls[2].returned.rec, calls[2].returned.rnd)

\* Translate::hit that searches the whole line instead of ray_t
TranslateHitSlip(o, r, ray_t, rec, rnd) ==
    LET offset_r == Ray(VRound(VSub(r.orig, o.offset)), r.dir, r.time)
        c == Hit(o.object, offset_r, IntervalUniverse, rec, rnd)
    IN  IF ~c.hit THEN c
        ELSE HitResult(TRUE, [c.rec EXCEPT !.p = VRound(VAdd(c.rec.p, o.offset))], c.rnd)

TranslateHit(o, r, ray_t, rec, rnd) ==
    LET offset_r == Ray(VRound(VSub(r.orig, o.offset)), r.dir, r.time)
        c == Hit(o.object, offset_r, ray_t, rec, rnd)
    IN  IF ~c.hit THEN c
        ELSE HitResult(TRUE, [c.rec EXCEPT !.p = VRound(VAdd(c.rec.p, o.offset))], c.rnd)

RotateYHit(o, r, ray_t, rec, rnd) ==
    LET rotated_r == Ray(WorldToLocal(o, r.orig), WorldToLocal(o, r.dir), r.time)
        c == Hit(o.object, rotated_r, ray_t, rec, rnd)
    IN  IF ~c.hit THEN c
        ELSE HitResult(TRUE,
                 [c.rec EXCEPT !.p = LocalToWorld(o, c.rec.p),
                               !.normal = LocalToWorld(o, c.rec.normal)],
                 c.rnd)

\* a plausible slip: the free path is not compared with the segment
ConstantMediumHitSlip(o, r, ray_t, rec, rnd) ==
    LET h1 == Hit(o.boundary, r, IntervalUniverse, HitRecordDefault, rnd)
        h2 == Hit(o.boundary, r, Interval(QAdd(h1.rec.t, ExitBias), INFINITY),
                  HitRecordDefault, h1.rnd)
        t1 == QMax(h1.rec.t, ray_t.min)
        t2 == QMin(h2.rec.t, ray_t.max)
        t1c == QMax(t1, I(0))
        ray_length == Norm(r.dir)
        hit_distance == QMul(o.neg_inv_density, NextLn(h2.rnd))
        t == QAdd(t1c, QDiv(hit_distance, ray_length))
    IN  IF ~h1.hit THEN HitResult(FALSE, rec, h1.rnd)
        ELSE IF ~h2.hit THEN HitResult(FALSE, rec, h2.rnd)
        ELSE IF QLe(t2, t1) THEN HitResult(FALSE, rec, h2.rnd)
        ELSE HitResult(TRUE,
                 [rec EXCEPT !.t = t, !.p = RayAt(r, t), !.normal = P3(1, 0, 0),
                             !.front_face = TRUE, !.mat = o.phase_function],
                 Advance(h2.rnd))

ConstantMediumHit(o, r, ray_t, rec, rnd) ==
    LET h1 == Hit(o.boundary, r, IntervalUniverse, HitRecordDefault, rnd)
        h2 == Hit(o.boundary, r, Interval(QAdd(h1.rec.t, ExitBias), INFINITY),
                  HitRecordDefault, h1.rnd)
        t1 == QMax(h1.rec.t, ray_t.min)
        t2 == QMin(h2.rec.t, ray_t.max)
        t1c == QMax(t1, I(0))
        ray_length == Norm(r.dir)
        distance_inside_boundary == QMul(QSub(t2, t1c), ray_length)
        hit_distance == QMul(o.neg_inv_density, NextLn(h2.rnd))
        t == QAdd(t1c, QDiv(hit_distance, ray_length))
    IN  IF ~h1.hit THEN HitResult(FALSE, rec, h1.rnd)
        ELSE IF ~h2.hit THEN HitResult(FALSE, rec, h2.rnd)
        ELSE IF QLe(t2, t1) THEN HitResult(FALSE, rec, h2.rnd)
        ELSE IF QLt(distance_inside_boundary, hit_distance)
        THEN HitResult(FALSE, rec, Advance(h2.rnd))
        ELSE HitResult(TRUE,
                 [rec EXCEPT !.t = t, !.p = RayAt(r, t), !.normal = P3(1, 0, 0),
                             !.front_face = TRUE, !.mat = o.phase_function],
                 Advance(h2.rnd))

Hit(obj, r, ray_t, rec, rnd) ==
    CASE obj.kind = "sphere" -> SphereHit(obj, r, ray_t, rec, rnd)
      [] obj.kind = "quad" -> QuadHit(obj, r, ray_t, rec, rnd)
      [] obj.kind = "list" -> HittableListHit(obj, r, ray_t, rec, rnd)
      [] obj.kind = "bvh" -> BvhNodeHit(obj, r, ray_t, rec, rnd)
      [] obj.kind = "translate" -> TranslateHit(obj, r, ray_t, rec, rnd)
      [] obj.kind = "rotate_y" -> RotateYHit(obj, r, ray_t, rec, rnd)
      [] obj.kind = "medium" -> ConstantMediumHit(obj, r, ray_t, rec, rnd)

RECURSIVE Representable(_, _)
\* every square root the hit of obj takes on ray r is exact
Representable(obj, r) ==
    CASE obj.kind = "sphere" ->
            QLt(SphereDiscriminant(obj, r), I(0)) \/ SqrtExact(SphereDiscriminant(obj, r))
      [] obj.kind = "quad" -> TRUE
      [] obj.kind = "list" ->
            \A i \in 1..Len(obj.objects) : Representable(obj.objects[i], r)
      [] obj.kind = "bvh" -> Representable(obj.left, r) /\ Representable(obj.right, r)
      [] obj.kind = "translate" ->
            Representable(obj.object,
                Ray(VRound(VSub(r.orig, obj.offset)), r.dir, r.time))
      [] obj.kind = "rotate_y" ->
            Representable(obj.object,
                Ray(WorldToLocal(obj, r.orig), WorldToLocal(obj, r.dir), r.time))
      [] obj.kind = "medium" ->
            Representable(obj.boundary, r) /\ SqrtExact(NormSquared(r.dir))

----------------------------------------------------------------------------
(* sampling/pdf/mixture_pdf.rs *)

\* f64::clamp: NaN stays NaN
QClamp(x, lo, hi) ==
    IF IsNaN(x) THEN x ELSE IF QLt(x, lo) THEN lo ELSE IF QLt(hi, x) THEN hi ELSE x

\* a component PDF, given by the density it returns for each direction
PdfOf(values) == [kind |-> "pdf", values |-> values]

\* PDF::value of a component
PdfValue(pdf, d) == pdf.values[d]

\* a plausible slip: the second weight is not the complement of the first
MixturePDFNewWeightedSlip(pdf1, pdf2, weight1) ==
    LET w == QClamp(weight1, I(0), I(1))
    IN  [pdf1 |-> pdf1, pdf2 |-> pdf2, weight1 |-> w, weight2 |-> w]

MixturePDFNewWeighted(pdf1, pdf2, weight1) ==
    LET w == QClamp(weight1, I(0), I(1))
    IN  [pdf1 |-> pdf1, pdf2 |-> pdf2, weight1 |-> w, weight2 |-> QSub(I(1), w)]

MixturePDFNew(pdf1, pdf2) == MixturePDFNewWeighted(pdf1, pdf2, Q(1, 2))

MixturePDFValue(m, d) ==
    LET value == QAdd(QMul(m.weight1, PdfValue(m.pdf1, d)),
                      QMul(m.weight2, PdfValue(m.pdf2, d)))
    IN  IF QLt(value, Eps8) THEN Eps8 ELSE value

\* which component generate delegates to when random_double() returns u
MixturePDFGenerate(m, u) == IF QLt(u, m.weight1) THEN "pdf1" ELSE "pdf2"

----------------------------------------------------------------------------
(* materials: one colour channel of each material *)

ScatterRecordNew ==
    [attenuation |-> I(0), pdf_ptr |-> None, skip_pdf |-> FALSE, skip_pdf_ray |-> None]

SetSpecular(srec, attenuation, ray) ==
    [srec EXCEPT !.attenuation = attenuation, !.skip_pdf = TRUE,
                 !.skip_pdf_ray = ray, !.pdf_ptr = None]

\* set_diffuse that leaves skip_pdf as it was
SetDiffuseSlip(srec, attenuation, pdf) ==
    [srec EXCEPT !.attenuation = attenuation, !.pdf_ptr = pdf]

SetDiffuse(srec, attenuation, pdf) ==
    [srec EXCEPT !.attenuation = attenuation, !.skip_pdf = FALSE, !.pdf_ptr = pdf]

Lambertian(albedo) == [kind |-> "lambertian", albedo |-> albedo, emit |-> I(0)]

Metal(albedo) == [kind |-> "metal", albedo |-> albedo, emit |-> I(0)]

Dielectric == [kind |-> "dielectric", albedo |-> I(1), emit |-> I(0)]

DiffuseLight(emit) == [kind |-> "diffuse_light", albedo |-> I(0), emit |-> emit]

Isotropic(albedo) == [kind |-> "isotropic", albedo |-> albedo, emit |-> I(0)]

NoMaterial == [kind |-> "none", albedo |-> I(0), emit |-> I(0)]

\* an implementation of the Material trait whose scatter returns true and leaves
\* the record as ScatterRecord::new() made it
UnsetMaterial == [kind |-> "unset", albedo |-> I(0), emit |-> I(0)]

\* Material::scatter; above: the fuzzed reflection points away from the surface;
\* pdf: the PDF object a diffuse material builds at the hit point
MaterialScatter(mat, srec, above, pdf) ==
    CASE mat.kind \in {"lambertian", "isotropic"} ->
            [scattered |-> TRUE, srec |-> SetDiffuse(srec, mat.albedo, pdf)]
      [] mat.kind = "metal" ->
            IF ~above THEN [scattered |-> FALSE, srec |-> srec]
            ELSE [scattered |-> TRUE,
                  srec |-> SetSpecular(srec, mat.albedo, [ray |-> "scattered_ray"])]
      [] mat.kind = "dielectric" ->
            [scattered |-> TRUE,
             srec |-> SetSpecular(srec, I(1), [ray |-> "scattered_ray"])]
      [] mat.kind \in {"diffuse_light", "none"} -> [scattered |-> FALSE, srec |-> srec]
      [] mat.kind = "unset" -> [scattered |-> TRUE, srec |-> srec]

MaterialEmitted(mat) == mat.emit

\* Material::scattering_pdf; direction_pdf: the value the material's own formula
\* takes for the scattered direction (cos/pi for Lambertian, 1/(4 pi) for Isotropic)
MaterialScatteringPdf(mat, direction_pdf) ==
    CASE mat.kind \in {"lambertian", "isotropic"} -> direction_pdf
      [] mat.kind = "none" -> I(1)
      [] OTHER -> I(0)

----------------------------------------------------------------------------
(* rendering/camera.rs: Camera::ray_color *)

DepthExhausted(depth) == depth <= 0

\* a plausible slip: the recursive call is made with the caller's depth
NextDepthSlip(depth) == depth

NextDepth(depth) == depth - 1

\* the density of the drawn direction: the mixture of the light PDF and the
\* material's PDF when lights are given, the material's PDF alone otherwise
DrawnDensity(lights, light_pdf, material_pdf) ==
    IF lights THEN MixturePDFValue(MixturePDFNew(light_pdf, material_pdf), 1)
    ELSE PdfValue(material_pdf, 1)

MinDensity == Q(1, 1000000)

\* the test without its is_finite half
DensityDegenerateSlip(pdf_value) == QLt(pdf_value, MinDensity)

DensityDegenerate(pdf_value) == QLt(pdf_value, MinDensity) \/ ~IsFinite(pdf_value)

RouletteApplies(depth) == depth > 3

rr_prob == Q(4, 5)

RouletteKills(u) == QLt(rr_prob, u)

\* a plausible slip: the survivor is scaled by the survival probability
rr_scaleSlip == rr_prob

rr_scale == QDiv(I(1), rr_prob)

\* what srec.pdf_ptr.expect("...") does when pdf_ptr is None
MissingPdfOutcomeSlip == "emission"

MissingPdfOutcome == "panic"

\* ray_color from the hit on: what the call does with the material of the hit.
\* outcome "emission": it returns the emission; "recurse": it calls itself once
\* and returns emission + attenuation * inner (specular) or
\* emission + scale * attenuation * scattering_pdf * inner / pdf_value;
\* "panic": an expect fails.
\* The record also tells how far the call got: scattered, skip_pdf, has_pdf
\* (what scatter left in the record), pdf_built (a PDF was built, sampled and
\* evaluated; density is its value), spdf_called (scattering_pdf was called),
\* ray (the ray handed to the recursive call).
RayColorAtHit(depth, mat, lights, above, light_density, material_density, direction_pdf, u) ==
    LET emission == MaterialEmitted(mat)
        s == MaterialScatter(mat, ScatterRecordNew, above, PdfOf(<<material_density>>))
        srec == s.srec
        pdf_value == DrawnDensity(lights, PdfOf(<<light_density>>), srec.pdf_ptr)
        scattering_pdf == MaterialScatteringPdf(mat, direction_pdf)
        base == [outcome |-> "emission", emission |-> emission, mode |-> "absorbed",
                 roulette |-> "none", scattered |-> s.scattered,
                 skip_pdf |-> srec.skip_pdf, has_pdf |-> srec.pdf_ptr # None,
                 pdf_built |-> FALSE, density |-> None, spdf_called |-> FALSE,
                 scale |-> None, attenuation |-> srec.attenuation,
                 scattering_pdf |-> None, pdf_value |-> None, ray |-> None]
        scattered == [ray |-> "sampled_direction"]
        sampled == [base EXCEPT !.pdf_built = TRUE, !.density = pdf_value]
        weighted == [sampled EXCEPT !.mode = "diffuse", !.spdf_called = TRUE]
    IN  IF ~s.scattered THEN base
        ELSE IF srec.skip_pdf
        THEN [base EXCEPT !.outcome = "recurse", !.mode = "specular",
                          !.ray = srec.skip_pdf_ray]
        ELSE IF srec.pdf_ptr = None
        THEN [base EXCEPT !.outcome = MissingPdfOutcome, !.mode = "diffuse"]
        ELSE IF DensityDegenerate(pdf_value) THEN [sampled EXCEPT !.mode = "degenerate"]
        ELSE IF RouletteApplies(depth)
        THEN IF RouletteKills(u) THEN [weighted EXCEPT !.roulette = "kill"]
             ELSE [weighted EXCEPT !.outcome = "recurse", !.roulette = "survive",
                                   !.ray = scattered,
                                   !.scale = rr_scale,
                                   !.scattering_pdf = scattering_pdf,
                                   !.pdf_value = pdf_value]
        ELSE [weighted EXCEPT !.outcome = "recurse", !.scale = I(1), !.ray = scattered,
                              !.scattering_pdf = scattering_pdf,
                              !.pdf_value = pdf_value]

\* a plausible slip: the specular return forgets the attenuation
CombineSlip(frame, inner) ==
    IF frame.mode = "specular" THEN QAdd(frame.emission, inner)
    ELSE QAdd(frame.emission,
              QDiv(QMul(frame.scale,
                        QMul(frame.attenuation, QMul(frame.scattering_pdf, inner))),
                   frame.pdf_value))

\* the value a call returns once its recursive call has returned inner
Combine(frame, inner) ==
    IF frame.mode = "specular" THEN QAdd(frame.emission, QMul(frame.attenuation, inner))
    ELSE QAdd(frame.emission,
              QDiv(QMul(frame.scale,
                        QMul(frame.attenuation, QMul(frame.scattering_pdf, inner))),
                   frame.pdf_value))

----------------------------------------------------------------------------
(* rendering/camera.rs: the samples of a pixel; rendering/color.rs *)

\* (samples_per_pixel as f64).sqrt() as i32
SqrtSpp(spp) == ISqrt(spp)

\* calculate_pixel_color: total_samples
TotalSamples(root) == root * root

\* color_to_rgb_with_samples up to the averaging: NaN becomes 0, then the
\* channel is multiplied by 1 / samples_per_pixel
AveragedChannel(c, spp) == QMul(IF IsNaN(c) THEN I(0) ELSE c, QDiv(I(1), I(spp)))

----------------------------------------------------------------------------
(* rendering/camera.rs: Camera::render *)

\* initialize: ((image_width as f64) / aspect_ratio) as i32, at least 1
ImageHeight(width, aspect) ==
    LET q == QDiv(I(width), aspect)
        h == q[1] \div q[2]
    IN  IF h > 1 THEN h ELSE 1

tile_size == 16

\* a plausible slip: the tile count is rounded down
NumTilesSlip(extent) == extent \div tile_size

\* num_tiles_x, num_tiles_y
NumTiles(extent) == (extent + tile_size - 1) \div tile_size

Min(a, b) == IF a < b THEN a ELSE b

\* the colour calculate_pixel_color returns for pixel (i, j), named by the
\* pixel it was computed for
PixelColor(i, j) == [computed_for |-> <<i, j>>]

\* the task of tile tile_idx: the (i, j, colour) triples of its pixels, row by row
TileTask(tile_idx, width, height) ==
    LET num_tiles_x == NumTiles(width)
        tile_x == (tile_idx % num_tiles_x) * tile_size
        tile_y == (tile_idx \div num_tiles_x) * tile_size
        x_end == Min(tile_x + tile_size, width)
        y_end == Min(tile_y + tile_size, height)
        cols == IF x_end > tile_x THEN x_end - tile_x ELSE 0
        rows == IF y_end > tile_y THEN y_end - tile_y ELSE 0
    IN  [k \in 1..(rows * cols) |->
            LET i == tile_x + ((k - 1) % cols)
                j == tile_y + ((k - 1) \div cols)
            IN  <<i, j, PixelColor(i, j)>>]

\* a task that has not run, and one that has, with the triples it pushed
Pending == [done |-> FALSE, triples |-> <<>>]

Done(triples) == [done |-> TRUE, triples |-> triples]

RECURSIVE Flatten(_, _)
\* collect: the tasks' results in the order of the tile indices
Flatten(results, n) ==
    IF n = 0 THEN <<>> ELSE Flatten(results, n - 1) \o results[n].triples

\* color_to_rgb_with_samples, as the pixel value it yields for a colour
Rgb(color) == [rgb_of |-> color]

Black == [rgb_of |-> "zero"]

InImage(i, j, width, height) == 0 <= i /\ i < width /\ 0 <= j /\ j < height

\* RgbImage::new, then put_pixel for each triple in turn: a pixel holds what
\* the last triple naming it put there
FillImage(colors, width, height) ==
    [p \in (0..(width - 1)) \X (0..(height - 1)) |->
        LET at == {k \in 1..Len(colors) : colors[k][1] = p[1] /\ colors[k][2] = p[2]}
        IN  IF at = {} THEN Black
            ELSE Rgb(colors[CHOOSE k \in at : \A l \in at : l <= k][3])]

----------------------------------------------------------------------------
(* pdf_value and random of Quad, HittableList and BvhNode *)

\* Quad::pdf_value
QuadPdfValue(quad, origin, direction) ==
    LET h == QuadHit(quad, Ray(origin, direction, I(0)), Interval(TMinBias, INFINITY),
                     HitRecordDefault, RndSource(<<I(-1)>>))
        distance_squared == QMul(QMul(h.rec.t, h.rec.t), NormSquared(direction))
        cosine == QAbs(QDiv(VDot(direction, h.rec.normal), Norm(direction)))
    IN  IF ~h.hit THEN I(0) ELSE QDiv(distance_squared, QMul(cosine, quad.area))

RECURSIVE PdfValueOf(_, _, _)
RECURSIVE SumPdfValues(_, _, _, _)

\* the sum of weight * obj.pdf_value(origin, direction) over the objects
SumPdfValues(objects, weight, origin, direction) ==
    IF Len(objects) = 0 THEN I(0)
    ELSE QAdd(SumPdfValues(SubSeq(objects, 1, Len(objects) - 1), weight, origin, direction),
              QMul(weight, PdfValueOf(objects[Len(objects)], origin, direction)))

\* HittableList::pdf_value
HittableListPdfValue(list, origin, direction) ==
    IF Len(list.objects) = 0 THEN I(0)
    ELSE SumPdfValues(list.objects, QDiv(I(1), I(Len(list.objects))), origin, direction)

\* BvhNode::pdf_value
BvhNodePdfValue(node, origin, direction) ==
    QMul(Q(1, 2), QAdd(PdfValueOf(node.left, origin, direction),
                       PdfValueOf(node.right, origin, direction)))

PdfValueOf(obj, origin, direction) ==
    CASE obj.kind = "quad" -> QuadPdfValue(obj, origin, direction)
      [] obj.kind = "list" -> HittableListPdfValue(obj, origin, direction)
      [] obj.kind = "bvh" -> BvhNodePdfValue(obj, origin, direction)

\* random_int_range(min, max) returns each integer of min..max with the same
\* probability
RandomIntRangeProbability(min, max) == QDiv(I(1), I(max - min + 1))

\* HittableList::random: the probability that it delegates to objects[i]
HittableListReach(list, i) == RandomIntRangeProbability(0, Len(list.objects) - 1)

RECURSIVE BvhNodeReach(_, _)
\* BvhNode::random: the probability that it ends in target; random_double()
\* is below 0.5 with probability one half
BvhNodeReach(node, target) ==
    IF node.kind = "bvh"
    THEN QAdd(QMul(Q(1, 2), BvhNodeReach(node.left, target)),
              QMul(Q(1, 2), BvhNodeReach(node.right, target)))
    ELSE IF node = target THEN I(1) ELSE I(0)

----------------------------------------------------------------------------
(* SpecAabb: Aabb::merge applied to three boxes *)

\* largest coordinate of the corner points the boxes are built from
MaxCoord == 2


CornerPoints ==
    {P3(0, 0, 0), P3(MaxCoord, 1, 0), P3(-1, MaxCoord, 1), P3(1, -1, MaxCoord)}

Boxes ==
    {AabbEmpty, AabbUniverse} \cup {AabbNewPoint(p, q) : p \in CornerPoints, q \in CornerPoints}


IdleAabb ==
    /\ boxA = None /\ boxB = None /\ boxC = None
    /\ mAB = None /\ mBA = None /\ mAB_C = None /\ mBC = None /\ mA_BC = None
    /\ apc = 0

IdleHit ==
    /\ world = None /\ bvh = None /\ phase = "idle" /\ query_ray = None /\ query_t = None
    /\ rndA = None /\ rndB = None /\ resList = None /\ resBvh = None /\ resAgain = None

IdleMix ==
    /\ mixture_pdf = None /\ passed_weight = None /\ mix_direction = None
    /\ mix_value = None /\ mix_generated = None

IdleColor ==
    /\ cam_max_depth = 0 /\ cam_lights = FALSE /\ call_depth = 0 /\ color_pc = "idle"
    /\ color_stack = <<>> /\ rec_mat = None /\ color_result = None
    /\ scatter_event = None

IdlePixel ==
    /\ samples_per_pixel = 0 /\ sqrt_spp = 0 /\ pixel_pc = "idle" /\ samples_taken = 0
    /\ pixel_sum = None /\ linear_out = None

IdleRender ==
    /\ image_width = 0 /\ aspect_ratio = None /\ image_height = 0 /\ render_pc = "idle"
    /\ tile_results = <<>> /\ pixel_colors = <<>> /\ img = None /\ save_result = None

IdlePdf ==
    /\ light_list = None /\ light_bvh = None /\ pdf_origin = None /\ pdf_direction = None
    /\ pdf_list = None /\ pdf_bvh = None /\ reach_list = <<>> /\ reach_bvh = <<>>

IdleTranslate ==
    /\ mantissa_digits = 0 /\ tr_object = None /\ tr_offset = None /\ tr_wrapped = None
    /\ tr_ray = None /\ tr_t = None /\ tr_direct = None /\ tr_round = None

IdleScatter ==
    /\ scatter_rec = None /\ scatter_rec_before = None /\ scatter_pc = "idle" /\ scatter_calls = 0

IdleBox ==
    /\ bb_object = None /\ bb_wraps = 0 /\ bb_result = None

IdleTexture ==
    /\ tex_files = None /\ tex_env = None /\ tex_texture = None /\ tex_value = None

IdleMedium ==
    /\ md_medium = None /\ md_density = None /\ md_ray = None /\ md_t = None
    /\ md_rnd = None /\ md_result = None

IdleSphere ==
    /\ sp_sphere = None /\ sp_ray = None /\ sp_t = None /\ sp_result = None

IdleGamma ==
    /\ gm_color = None /\ gm_samples = None /\ gm_rgb = None

IdleBuild ==
    /\ bd_list = None /\ bd_added = None /\ bd_cleared = FALSE /\ bd_pc = "idle"
    /\ bd_stack = <<>> /\ bd_calls = 0 /\ bd_tree = None

InitAabb ==
    /\ IdleHit /\ IdleMix /\ IdleColor /\ IdlePixel /\ IdleRender /\ IdlePdf
    /\ IdleTranslate /\ IdleScatter /\ IdleBox /\ IdleTexture /\ IdleMedium
    /\ IdleSphere /\ IdleGamma /\ IdleBuild
    /\ boxA \in Boxes
    /\ boxB \in Boxes
    /\ boxC \in Boxes
    /\ mAB = None /\ mBA = None /\ mAB_C = None /\ mBC = None /\ mA_BC = None
    /\ apc = 0

MergeAB ==
    /\ apc = 0
    /\ mAB' = AabbMerge(boxA, boxB)
    /\ apc' = 1
    /\ UNCHANGED <<boxA, boxB, boxC, mBA, mAB_C, mBC, mA_BC>>

MergeBA ==
    /\ apc = 1
    /\ mBA' = AabbMerge(boxB, boxA)
    /\ apc' = 2
    /\ UNCHANGED <<boxA, boxB, boxC, mAB, mAB_C, mBC, mA_BC>>

MergeAB_C ==
    /\ apc = 2
    /\ mAB_C' = AabbMerge(mAB, boxC)
    /\ apc' = 3
    /\ UNCHANGED <<boxA, boxB, boxC, mAB, mBA, mBC, mA_BC>>

MergeBC ==
    /\ apc = 3
    /\ mBC' = AabbMerge(boxB, boxC)
    /\ apc' = 4
    /\ UNCHANGED <<boxA, boxB, boxC, mAB, mBA, mAB_C, mA_BC>>

MergeA_BC ==
    /\ apc = 4
    /\ mA_BC' = AabbMerge(boxA, mBC)
    /\ apc' = 5
    /\ UNCHANGED <<boxA, boxB, boxC, mAB, mBA, mAB_C, mBC>>

NextAabb ==
    /\ MergeAB \/ MergeBA \/ MergeAB_C \/ MergeBC \/ MergeA_BC
    /\ UNCHANGED notAabb

SpecAabb == InitAabb /\ [][NextAabb]_vars

\* C9: Aabb::merge is commutative and associative, and on every axis the
\* merged box's interval contains the intervals of both inputs.
C9_MergeAlgebra ==
    /\ apc >= 1 => AabbWithin(boxA, mAB) /\ AabbWithin(boxB, mAB)
    /\ apc >= 2 => mAB = mBA
    /\ apc >= 5 => mAB_C = mA_BC

\* three distinct finite boxes merged, none of which contains another
C9_Witness ==
    /\ apc = 5
    /\ boxA # AabbEmpty /\ boxA # AabbUniverse
    /\ mAB # boxA /\ mAB # boxB
    /\ mAB_C # mAB /\ mAB_C # boxC
    /\ mA_BC # mBC

----------------------------------------------------------------------------
(* SpecHit: a scene is built with HittableList::add, BvhNode::new takes its
   snapshot, and rays are then intersected with both *)

\* the most objects a scene holds
MaxObjects == 2

SphereA == SphereNew(P3(0, 0, 0), I(5), "red")

\* passes through (3, 0, 4) like SphereA, and moves along y
SphereB == SphereNewMoving(P3(3, 0, -1), P3(3, 6, -1), I(5), "green")

QuadA == QuadNew(P3(0, 0, 0), P3(1, 0, 0), P3(0, 1, 0), "white")

QuadB == QuadNew(P3(-4, -4, 2), P3(8, 0, 0), P3(0, 8, 0), "light")

\* a box turned a quarter about y, then moved
BoxA == TranslateNew(RotateYNew(BoxNew(P3(0, 0, 0), P3(2, 2, 2), "blue"), I(1), I(0)),
                     P3(2, -1, 3))

SmokeA == ConstantMediumNew(SphereA, Q(1, 4), "smoke")

Catalogue == {SphereA, SphereB, QuadA, QuadB, BoxA, SmokeA}

Rays ==
    {Ray(P3(3, 0, 10), P3(0, 0, -1), I(0)),
     Ray(P3(3, 0, 10), P3(0, 0, -2), Q(1, 2)),
     Ray(P3(-1, 1, 1), P3(1, -1, -1), I(0)),
     Ray(P3(0, 0, 0), P3(0, 0, 2), I(0)),
     Ray(P3(3, 0, 4), P3(0, 0, 1), I(0)),
     Ray(P3(-10, 0, 0), P3(1, 0, 0), I(0))}

SearchIntervals ==
    {Interval(TMinBias, INFINITY), Interval(TMinBias, I(6)), Interval(I(-20), I(-1))}

\* the values ln(random_double()) takes, in order
LnDraws == {<<I(-1)>>, <<I(-12), Q(-1, 4)>>}

RECURSIVE HasMedium(_)
HasMedium(obj) ==
    CASE obj.kind = "medium" -> TRUE
      [] obj.kind = "list" -> \E i \in 1..Len(obj.objects) : HasMedium(obj.objects[i])
      [] obj.kind = "bvh" -> HasMedium(obj.left) \/ HasMedium(obj.right)
      [] obj.kind \in {"translate", "rotate_y"} -> HasMedium(obj.object)
      [] OTHER -> FALSE

InitHit ==
    /\ IdleAabb /\ IdleMix /\ IdleColor /\ IdlePixel /\ IdleRender /\ IdlePdf
    /\ IdleTranslate /\ IdleScatter /\ IdleBox /\ IdleTexture /\ IdleMedium
    /\ IdleSphere /\ IdleGamma /\ IdleBuild
    /\ world = HittableListNew
    /\ bvh = None
    /\ phase = "build"
    /\ query_ray = None /\ query_t = None /\ rndA = None /\ rndB = None
    /\ resList = None /\ resBvh = None /\ resAgain = None

\* HittableList::add
Add(obj) ==
    /\ phase = "build"
    /\ Len(world.objects) < MaxObjects
    /\ world' = HittableListAdd(world, obj)
    /\ UNCHANGED <<bvh, phase, query_ray, query_t, rndA, rndB, resList, resBvh, resAgain>>

\* HittableList::clear
Clear ==
    /\ phase = "build"
    /\ Len(world.objects) > 0
    /\ world' = HittableListClear(world)
    /\ UNCHANGED <<bvh, phase, query_ray, query_t, rndA, rndB, resList, resBvh, resAgain>>

\* BvhNode::new(&world)
Build ==
    /\ phase = "build"
    /\ Len(world.objects) > 0
    /\ bvh' = BvhNodeNew(world)
    /\ phase' = "query"
    /\ UNCHANGED <<world, query_ray, query_t, rndA, rndB, resList, resBvh, resAgain>>

\* world.hit(r, t, &mut HitRecord::default()); hit takes &self and leaves the
\* scene as it is, so one query per built scene reaches every query
HitWorld(r, t, draws) ==
    /\ phase = "query"
    /\ resList = None
    /\ Representable(world, r)
    /\ query_ray' = r
    /\ query_t' = t
    /\ rndA' = RndSource(draws)
    /\ resList' = Hit(world, r, t, HitRecordDefault, RndSource(draws))
    /\ resBvh' = None
    /\ resAgain' = None
    /\ rndB' = None
    /\ UNCHANGED <<world, bvh, phase>>

\* bvh.hit on the same ray and interval, the random source as it was
HitBvh ==
    /\ phase = "query"
    /\ resList # None
    /\ resBvh = None
    /\ resBvh' = Hit(bvh, query_ray, query_t, HitRecordDefault, rndA)
    /\ UNCHANGED <<world, bvh, phase, query_ray, query_t, rndA, rndB, resList, resAgain>>

\* world.hit on the same ray and interval a second time, the random source
\* being wherever it then is
HitAgain(draws) ==
    /\ phase = "query"
    /\ resList # None
    /\ resAgain = None
    /\ rndB' = RndSource(draws)
    /\ resAgain' = Hit(world, query_ray, query_t, HitRecordDefault, RndSource(draws))
    /\ UNCHANGED <<world, bvh, phase, query_ray, query_t, rndA, resList, resBvh>>

NextHit ==
    /\ \/ \E obj \in Catalogue : Add(obj)
       \/ Clear
       \/ Build
       \/ \E r \in Rays, t \in SearchIntervals, draws \in LnDraws : HitWorld(r, t, draws)
       \/ HitBvh
       \/ \E draws \in LnDraws : HitAgain(draws)
    /\ UNCHANGED notHit

SpecHit == InitHit /\ [][NextHit]_vars

SameHit(a, b) ==
    /\ a.hit = b.hit
    /\ a.hit => /\ a.rec.t = b.rec.t
                /\ a.rec.p = b.rec.p
                /\ a.rec.normal = b.rec.normal
                /\ a.rec.mat = b.rec.mat

\* C1: BvhNode::new(list).hit and HittableList::hit over the same objects agree
\* on hit/miss and, when they hit, on t, point, normal and material. Stated
\* here for the scenes without a ConstantMedium, where no draw can account for
\* a difference.
C1_BvhEqualsList == (resBvh # None /\ ~HasMedium(world)) => SameHit(resBvh, resList)

InInterval(res) ==
    res # None /\ res.hit =>
        /\ IntervalContains(query_t, res.rec.t)
        /\ res.rec.p = RayAt(query_ray, res.rec.t)

\* C2: whenever hit returns true, the record's t lies in the search interval
\* [min, max] and the record's point is the ray evaluated at t.
C2_HitInsideInterval == InInterval(resList) /\ InInterval(resBvh) /\ InInterval(resAgain)

\* a scene of a transformed box and a medium, hit through the list and through
\* the BVH inside a bounded interval
C2_Witness ==
    /\ resBvh # None /\ resBvh.hit /\ resList.hit
    /\ Len(world.objects) = 2
    /\ \E i \in 1..2 : world.objects[i].kind = "medium"
    /\ \E i \in 1..2 : world.objects[i].kind = "translate"
    /\ query_t.max = I(6)

\* the second query answered as the first did: same hit/miss, same record
SameAnswer == resAgain.hit = resList.hit /\ resAgain.rec = resList.rec

\* C8 as stated: two hit queries with an identical ray and an identical search
\* interval on the same object return identical results, ConstantMedium
\* included, whatever the random source yields in between.
C8_HitDrawsNoRandomness == resAgain # None => SameAnswer

\* C8 amended: the two queries return identical results when the object
\* contains no ConstantMedium, or when the random source yields the same draws
\* to both; ConstantMedium::hit takes its free path from the source on every query.
C8_HitDeterministicUpToDraws ==
    (resAgain # None /\ (~HasMedium(world) \/ rndB = rndA)) => SameAnswer

\* two hits of a medium-free scene of a moving sphere and a transformed box,
\* queried under different draws
C8_Witness ==
    /\ resAgain # None /\ resAgain.hit /\ rndB # rndA
    /\ ~HasMedium(world)
    /\ Len(world.objects) = 2
    /\ \E i \in 1..2 : world.objects[i] = SphereB
    /\ \E i \in 1..2 : world.objects[i].kind = "translate"

\* what each child of world was asked with during the query
ListQueries == ListHitFrom(world.objects, 1, query_ray, query_t,
                           ListHitStart(query_t, HitRecordDefault, rndA)).queries

\* child i asked directly about the whole interval, the random source as the
\* list found it when it came to that child
ChildAlone(i) ==
    Hit(world.objects[i], query_ray, query_t, HitRecordDefault, ListQueries[i].rnd)

ChildrenHit == {i \in 1..Len(world.objects) : ChildAlone(i).hit}

\* the smallest t the children before child i hit with, or bound if none hit
BestBefore(i, bound) ==
    LET ts == {ChildAlone(j).rec.t : j \in {h \in ChildrenHit : h < i}}
    IN  IF ts = {} THEN bound ELSE CHOOSE t \in ts : \A other \in ts : QLe(t, other)

\* C20: HittableList::hit returns true exactly when at least one child hits
\* inside the interval; the record it leaves is that of a child with the
\* smallest t among all the children's hits; each child is asked with the
\* interval's upper bound shrunk to the best t found so far.
C20_ListKeepsClosest ==
    resList # None =>
        /\ resList.hit <=> ChildrenHit # {}
        /\ resList.hit =>
               /\ \A i \in ChildrenHit : QLe(resList.rec.t, ChildAlone(i).rec.t)
               /\ \E i \in ChildrenHit : SameHit(resList, ChildAlone(i))
        /\ Len(ListQueries) = Len(world.objects)
        /\ \A i \in 1..Len(world.objects) :
               ListQueries[i].ray_t = Interval(query_t.min, BestBefore(i, query_t.max))

\* two children that both hit inside the interval, the second one closer: it
\* was asked with the bound shrunk to the first one's t and its record is kept
C20_Witness ==
    /\ resList # None /\ resList.hit
    /\ Len(world.objects) = 2
    /\ ChildrenHit = {1, 2}
    /\ QLt(ChildAlone(2).rec.t, ChildAlone(1).rec.t)
    /\ ListQueries[2].ray_t.max = ChildAlone(1).rec.t
    /\ resList.rec.t = ChildAlone(2).rec.t

\* the times the hit of obj is invoked by one traversal of the root node
HitInvocations(obj) ==
    Cardinality({k \in DOMAIN BvhChildCalls(bvh, query_ray, query_t, HitRecordDefault, rndA) :
                    BvhChildCalls(bvh, query_ray, query_t, HitRecordDefault, rndA)[k].object
                        = obj})

\* C22: one traversal of a BVH leaf built from a single object invokes the
\* object's hit at most once: once the object is hit through the left child it
\* is not tested again through the right child.
C22_LeafTestsObjectOnce ==
    (resBvh # None /\ Len(world.objects) = 1 /\ bvh.left = bvh.right /\ resBvh.hit) =>
        HitInvocations(world.objects[1]) <= 1

\* the normal of the record is oriented against the ray, and front_face tells
\* that the outward normal (the record's normal, flipped back when front_face
\* is false) faced the ray
AgainstRay(res) ==
    /\ QLe(VDot(query_ray.dir, res.rec.normal), I(0))
    /\ res.rec.front_face <=>
           QLt(VDot(query_ray.dir,
                    IF res.rec.front_face THEN res.rec.normal ELSE VNeg(res.rec.normal)),
               I(0))

\* the outward normal of a sphere or a quad at the point of the record
GeometricNormal(obj, res) ==
    IF obj.kind = "sphere"
    THEN VDivide(VSub(res.rec.p, RayAt(obj.center, query_ray.time)), obj.radius)
    ELSE obj.normal

\* the record of the list's hit is that of a sphere or quad child: front_face
\* is true exactly when that child's outward normal faces the ray
FrontFaceOfChild(res) ==
    \A i \in ChildrenHit :
        (world.objects[i].kind \in {"sphere", "quad"} /\ SameHit(res, ChildAlone(i))) =>
            (res.rec.front_face <=>
                 QLt(VDot(query_ray.dir, GeometricNormal(world.objects[i], res)), I(0)))

\* the record was written by ConstantMedium::hit
FromMedium(res) == res.rec.mat = SmokeA.phase_function

\* C24 as stated: every hit record returned by any intersectable, ConstantMedium
\* included, has its normal oriented against the ray, dot(r.dir, normal) <= 0,
\* and front_face true exactly when the outward normal faced the ray.
C24_NormalAgainstRay ==
    /\ (resList # None /\ resList.hit) => AgainstRay(resList)
    /\ (resBvh # None /\ resBvh.hit) => AgainstRay(resBvh)
    /\ (resAgain # None /\ resAgain.hit) => AgainstRay(resAgain)

NormalFacing(res) ==
    (res # None /\ res.hit) =>
        IF FromMedium(res)
        THEN res.rec.normal = P3(1, 0, 0) /\ res.rec.front_face
        ELSE AgainstRay(res)

\* C24 amended: every hit record that comes from a Sphere or a Quad, directly
\* or through lists, BVH nodes, Translate and RotateY, has its normal oriented
\* against the ray and front_face true exactly when the outward normal faced
\* the ray; a record written by ConstantMedium::hit has the normal (1, 0, 0)
\* and front_face true whatever the ray.
C24_NormalAgainstRayOutsideMedia ==
    /\ NormalFacing(resList) /\ NormalFacing(resBvh) /\ NormalFacing(resAgain)
    /\ (resList # None /\ resList.hit /\ ~FromMedium(resList)) => FrontFaceOfChild(resList)

\* a sphere hit from inside: the outward normal faces away from the ray, the
\* record holds the flipped normal and front_face is false
C24_Witness ==
    /\ resList # None /\ resList.hit
    /\ Len(world.objects) = 1
    /\ world.objects[1] = SphereA
    /\ ~resList.rec.front_face
    /\ QLt(VDot(query_ray.dir, resList.rec.normal), I(0))

\* a record of the caller with every field set, none as HitRecord::default()
CallerRecord ==
    [HitRecordDefault EXCEPT !.t = I(7), !.p = P3(1, 2, 3), !.normal = P3(0, 1, 0),
                             !.mat = "marked", !.u = UVal(Q(1, 2)), !.v = UVal(Q(1, 4)),
                             !.front_face = TRUE]

\* obj.hit on the ray and interval of the query, with the caller's record
HitWithRecord(obj) == Hit(obj, query_ray, query_t, CallerRecord, rndA)

MissLeavesRecord(obj) == ~HitWithRecord(obj).hit => HitWithRecord(obj).rec = CallerRecord

\* C28: when hit returns false, the HitRecord the caller passed in is left as
\* it was in every field; so for the list, for the BVH built from it and for
\* each of its objects, transforms and media included.
C28_MissLeavesRecord ==
    resBvh # None =>
        /\ MissLeavesRecord(world)
        /\ MissLeavesRecord(bvh)
        /\ \A i \in DOMAIN world.objects : MissLeavesRecord(world.objects[i])

\* the ray enters the box of the BVH, both children are asked and both miss,
\* one of them the turned and moved box
C28_Witness ==
    /\ resBvh # None
    /\ ~resBvh.hit
    /\ Len(BvhChildCalls(bvh, query_ray, query_t, CallerRecord, rndA)) = 2
    /\ \E i \in DOMAIN world.objects : world.objects[i] = BoxA
    /\ \E i \in DOMAIN world.objects : world.objects[i] = QuadA

----------------------------------------------------------------------------
(* SpecMix: a MixturePDF constructed from two component PDFs and evaluated *)

\* number of directions the component PDFs are tabulated for
NumDirections == 2

Densities == {I(0), Q(1, 200000000), I(3)}

ComponentPdfs == {PdfOf(v) : v \in [1..NumDirections -> Densities]}

Weights == {Q(-1, 2), I(0), Q(1, 4), I(1), Q(3, 2), NAN}

\* values of random_double(), which lies in [0, 1)
UnitDraws == {I(0), Q(1, 4), Q(3, 4)}

InitMix ==
    /\ IdleAabb /\ IdleHit /\ IdleColor /\ IdlePixel /\ IdleRender /\ IdlePdf
    /\ IdleTranslate /\ IdleScatter /\ IdleBox /\ IdleTexture /\ IdleMedium
    /\ IdleSphere /\ IdleGamma /\ IdleBuild
    /\ mixture_pdf = None /\ passed_weight = None /\ mix_direction = None
    /\ mix_value = None /\ mix_generated = None

\* MixturePDF::new(pdf1, pdf2)
MixNew(pdf1, pdf2) ==
    /\ mixture_pdf = None
    /\ mixture_pdf' = MixturePDFNew(pdf1, pdf2)
    /\ passed_weight' = Q(1, 2)
    /\ UNCHANGED <<mix_direction, mix_value, mix_generated>>

\* MixturePDF::new_weighted(pdf1, pdf2, weight1)
MixNewWeighted(pdf1, pdf2, weight1) ==
    /\ mixture_pdf = None
    /\ mixture_pdf' = MixturePDFNewWeighted(pdf1, pdf2, weight1)
    /\ passed_weight' = weight1
    /\ UNCHANGED <<mix_direction, mix_value, mix_generated>>

\* mixture_pdf.value(&direction)
MixValue(d) ==
    /\ mixture_pdf # None
    /\ mix_direction' = d
    /\ mix_value' = MixturePDFValue(mixture_pdf, d)
    /\ UNCHANGED <<mixture_pdf, passed_weight, mix_generated>>

\* mixture_pdf.generate(), random_double() returning u
MixGenerate(u) ==
    /\ mixture_pdf # None
    /\ mix_generated' = [draw |-> u, component |-> MixturePDFGenerate(mixture_pdf, u)]
    /\ UNCHANGED <<mixture_pdf, passed_weight, mix_direction, mix_value>>

NextMix ==
    /\ \/ \E pdf1 \in ComponentPdfs, pdf2 \in ComponentPdfs : MixNew(pdf1, pdf2)
       \/ \E pdf1 \in ComponentPdfs, pdf2 \in ComponentPdfs, weight1 \in Weights :
              MixNewWeighted(pdf1, pdf2, weight1)
       \/ \E d \in 1..NumDirections : MixValue(d)
       \/ \E u \in UnitDraws : MixGenerate(u)
    /\ UNCHANGED notMix

SpecMix == InitMix /\ [][NextMix]_vars

\* w * pdf1.value(d) + (1 - w) * pdf2.value(d)
WeightedSum(w, d) ==
    QAdd(QMul(w, PdfValue(mixture_pdf.pdf1, d)),
         QMul(QSub(I(1), w), PdfValue(mixture_pdf.pdf2, d)))

\* C10 as stated: for every pair of component PDFs, direction d and weight w
\* passed to new_weighted (new uses 0.5), value(d) equals
\* w * pdf1.value(d) + (1 - w) * pdf2.value(d).
C10_ValueIsWeightedSum ==
    mix_value # None => mix_value = WeightedSum(passed_weight, mix_direction)

\* C10 amended: for a weight that is not NaN, value(d) is the weighted sum
\* taken with the weight clamped to [0, 1], and never less than the floor
\* 1e-8: value(d) =
\* max(1e-8, w' * pdf1.value(d) + (1 - w') * pdf2.value(d)), w' = clamp(w, 0, 1);
\* it is the stated sum when 0 <= w <= 1 and that sum is at least 1e-8.
C10_ValueIsClampedFlooredSum ==
    (mix_value # None /\ ~IsNaN(passed_weight)) =>
        LET sum == WeightedSum(QClamp(passed_weight, I(0), I(1)), mix_direction)
        IN  /\ mix_value = QMax(Eps8, sum)
            /\ (QLe(I(0), passed_weight) /\ QLe(passed_weight, I(1)) /\ QLe(Eps8, sum))
                   => mix_value = WeightedSum(passed_weight, mix_direction)

\* a weight above 1 was passed and the mixture evaluated on unequal, positive
\* component densities
C10_Witness ==
    /\ mix_value # None
    /\ passed_weight = Q(3, 2)
    /\ PdfValue(mixture_pdf.pdf1, mix_direction) = I(3)
    /\ PdfValue(mixture_pdf.pdf2, mix_direction) = Q(1, 200000000)
    /\ mix_value = I(3)

\* C26: for every weight passed to new_weighted and components with
\* non-negative densities, the stored weights satisfy 0 <= weight1 <= 1 and
\* weight1 + weight2 = 1, value(d) is never below the floor 1e-8, and generate
\* takes the first component exactly when the draw of random_double(), uniform
\* on [0, 1), is below weight1, that is with probability weight1.
C26_WeightsAndFloor ==
    /\ mixture_pdf # None =>
           /\ QLe(I(0), mixture_pdf.weight1) /\ QLe(mixture_pdf.weight1, I(1))
           /\ QAdd(mixture_pdf.weight1, mixture_pdf.weight2) = I(1)
    /\ mix_value # None => QLe(Eps8, mix_value)
    /\ mix_generated # None =>
           (mix_generated.component = "pdf1" <=>
                QLt(mix_generated.draw, mixture_pdf.weight1))

----------------------------------------------------------------------------
(* SpecColor: one call of Camera::ray_color(ray, max_depth, world, lights)  *)
(* and the calls nested in it                                               *)

\* largest max_depth a camera is given
MaxDepth == 5

Background == Q(1, 4)

SceneMaterials ==
    {Lambertian(Q(1, 2)), Metal(Q(1, 2)), Dielectric, DiffuseLight(I(4)),
     Isotropic(Q(1, 2)), NoMaterial, UnsetMaterial}

LightDensities == {I(0), INFINITY}

MaterialDensities == {I(0), Q(1, 2000000), Q(1, 2), NAN}

DirectionPdfs == {Q(1, 4)}

RouletteDraws == {Q(4, 5), Q(9, 10)}

Returned(kind, value, depth, intersected, calls) ==
    [kind |-> kind, value |-> value, depth |-> depth, intersected |-> intersected,
     calls |-> calls]

\* what a caller keeps while its recursive call runs
Frame(depth, step) ==
    [depth |-> depth, emission |-> step.emission, mode |-> step.mode,
     roulette |-> step.roulette, scale |-> step.scale,
     attenuation |-> step.attenuation, scattering_pdf |-> step.scattering_pdf,
     pdf_value |-> step.pdf_value, ray |-> step.ray]

InitColor ==
    /\ IdleAabb /\ IdleHit /\ IdleMix /\ IdlePixel /\ IdleRender /\ IdlePdf
    /\ IdleTranslate /\ IdleScatter /\ IdleBox /\ IdleTexture /\ IdleMedium
    /\ IdleSphere /\ IdleGamma /\ IdleBuild
    /\ cam_max_depth \in -1..MaxDepth
    /\ cam_lights \in BOOLEAN
    /\ call_depth = cam_max_depth
    /\ color_pc = "enter"
    /\ color_stack = <<>>
    /\ rec_mat = None
    /\ color_result = None
    /\ scatter_event = None

\* if depth <= 0 { return Color::zeros(); }
RayColorEnter ==
    /\ color_pc = "enter"
    /\ IF DepthExhausted(call_depth)
       THEN /\ color_result' = Returned("black", I(0), call_depth, FALSE, 0)
            /\ color_pc' = "return"
       ELSE /\ color_pc' = "intersect"
            /\ UNCHANGED color_result
    /\ UNCHANGED <<cam_max_depth, cam_lights, call_depth, color_stack, rec_mat,
                   scatter_event>>

\* world.hit(r, Interval::new(0.001, INFINITY), &mut rec)
RayColorIntersect(hit, mat) ==
    /\ color_pc = "intersect"
    /\ IF ~hit
       THEN /\ color_result' = Returned("background", Background, call_depth, TRUE, 0)
            /\ color_pc' = "return"
            /\ UNCHANGED rec_mat
       ELSE /\ rec_mat' = mat
            /\ color_pc' = "scatter"
            /\ UNCHANGED color_result
    /\ UNCHANGED <<cam_max_depth, cam_lights, call_depth, color_stack, scatter_event>>

\* emitted, scatter, the PDF, the roulette and the recursive call
RayColorScatter(above, light_density, material_density, direction_pdf, u) ==
    /\ color_pc = "scatter"
    /\ Len(color_stack) <= MaxDepth
    /\ LET step == RayColorAtHit(call_depth, rec_mat, cam_lights, above, light_density,
                                 material_density, direction_pdf, u)
       IN  /\ scatter_event' =
                  [depth |-> call_depth, lights |-> cam_lights, mode |-> step.mode,
                   roulette |-> step.roulette, outcome |-> step.outcome,
                   emission |-> step.emission, scattered |-> step.scattered,
                   skip_pdf |-> step.skip_pdf, has_pdf |-> step.has_pdf,
                   pdf_built |-> step.pdf_built, density |-> step.density,
                   spdf_called |-> step.spdf_called, attenuation |-> step.attenuation,
                   draw |-> IF step.roulette = "none" THEN None ELSE u]
           /\ CASE step.outcome = "emission" ->
                    /\ color_result' =
                           Returned("emission", step.emission, call_depth, TRUE, 0)
                    /\ color_pc' = "return"
                    /\ UNCHANGED <<color_stack, call_depth>>
                [] step.outcome = "recurse" ->
                    /\ color_stack' = Append(color_stack, Frame(call_depth, step))
                    /\ call_depth' = NextDepth(call_depth)
                    /\ color_pc' = "enter"
                    /\ UNCHANGED color_result
                [] step.outcome = "panic" ->
                    /\ color_pc' = "panic"
                    /\ UNCHANGED <<color_stack, call_depth, color_result>>
    /\ rec_mat' = None
    /\ UNCHANGED <<cam_max_depth, cam_lights>>

\* the recursive call returns and its caller returns the combined value
RayColorReturn ==
    /\ color_pc = "return"
    /\ color_stack # <<>>
    /\ LET frame == color_stack[Len(color_stack)]
       IN  /\ color_result' = Returned("combined", Combine(frame, color_result.value),
                                       frame.depth, TRUE, 1)
           /\ call_depth' = frame.depth
    /\ color_stack' = SubSeq(color_stack, 1, Len(color_stack) - 1)
    /\ UNCHANGED <<cam_max_depth, cam_lights, color_pc, rec_mat, scatter_event>>

NextColor ==
    /\ \/ RayColorEnter
       \/ \E hit \in BOOLEAN, mat \in SceneMaterials : RayColorIntersect(hit, mat)
       \/ \E above \in BOOLEAN, light_density \in LightDensities,
             material_density \in MaterialDensities, direction_pdf \in DirectionPdfs,
             u \in RouletteDraws :
              RayColorScatter(above, light_density, material_density, direction_pdf, u)
       \/ RayColorReturn
    /\ UNCHANGED notColor

SpecColor == InitColor /\ [][NextColor]_vars

RECURSIVE DepthsDescend(_)
\* the callers' depths are max_depth, max_depth - 1, ... from the outermost in
DepthsDescend(i) ==
    i = 0 \/ (color_stack[i].depth = cam_max_depth - (i - 1) /\ DepthsDescend(i - 1))

\* a bound on the steps the call in progress and its callers still take
StepsLeft ==
    IF color_pc \in {"return", "panic"} THEN Len(color_stack)
    ELSE 4 * (IF call_depth > 0 THEN call_depth ELSE 0) + Len(color_stack)
         + (CASE color_pc = "enter" -> 3
              [] color_pc = "intersect" -> 2
              [] color_pc = "scatter" -> 1)

C3_Nesting ==
    /\ StepsLeft >= 0
    /\ DepthsDescend(Len(color_stack))
    /\ call_depth = cam_max_depth - Len(color_stack)
    /\ Len(color_stack) <= (IF cam_max_depth > 0 THEN cam_max_depth ELSE 0)
    /\ color_pc \in {"intersect", "scatter", "panic"} => call_depth > 0
    /\ color_result # None =>
          /\ color_result.kind \in {"black", "background", "emission", "combined"}
          /\ color_result.kind = "black" <=> color_result.depth <= 0
          /\ color_result.kind = "black" => ~color_result.intersected
          /\ color_result.kind = "combined" <=> color_result.calls = 1
          /\ color_result.calls \in {0, 1}

\* C3: ray_color terminates (every step lowers a natural-number bound on the
\* steps left): every nested call has depth exactly one less than its caller,
\* a call with depth <= 0 returns black without intersecting the scene, the
\* nesting never exceeds max_depth, and every call that returns returns
\* black, the background, the emission only, or a value built from exactly
\* one recursive call.
C3_RayColorTerminates == []C3_Nesting /\ [][StepsLeft' < StepsLeft]_vars

\* a path of max_depth bounces that ran out of depth and returned black to
\* max_depth waiting callers
C3_Witness ==
    /\ cam_max_depth = MaxDepth
    /\ color_pc = "return"
    /\ color_result.kind = "black"
    /\ Len(color_stack) = cam_max_depth
    /\ \E i \in 1..Len(color_stack) : color_stack[i].roulette = "survive"
    /\ \E i \in 1..Len(color_stack) : color_stack[i].mode = "specular"

\* C4: Russian roulette is applied only at non-specular scattering events
\* whose depth is below max_depth - 3: no path is ended by roulette while
\* depth >= max_depth - 3, and every non-specular event with depth <
\* max_depth - 3 draws for the roulette (continuing with probability 0.8).
C4_RouletteOnlyPastThreshold ==
    scatter_event # None =>
        /\ scatter_event.roulette # "none" =>
              scatter_event.mode = "diffuse" /\ scatter_event.depth < cam_max_depth - 3
        /\ (scatter_event.mode = "diffuse" /\ color_pc # "panic"
             /\ scatter_event.depth < cam_max_depth - 3) =>
              scatter_event.roulette # "none"

\* the density is finite and at least 1e-6
DensityUsable(pdf_value) == IsFinite(pdf_value) /\ QLe(MinDensity, pdf_value)

\* C13: a scattering event whose drawn direction has a density below 1e-6 or
\* not finite returns the emission only and makes no recursive call; so every
\* caller that will divide by its density holds one that is finite and at
\* least 1e-6, with a light list and without.
C13_DegenerateDensityReturnsEmission ==
    /\ (/\ scatter_event # None
        /\ scatter_event.pdf_built
        /\ ~DensityUsable(scatter_event.density)) =>
           /\ scatter_event.outcome = "emission"
           /\ scatter_event.mode = "degenerate"
           /\ (color_pc = "return" /\ color_result.depth = scatter_event.depth) =>
                 (/\ color_result.calls = 0
                  /\ color_result.kind = "emission"
                  /\ color_result.value = scatter_event.emission)
    /\ \A i \in 1..Len(color_stack) :
          color_stack[i].mode # "specular" => DensityUsable(color_stack[i].pdf_value)

\* with a light list, a direction of infinite density was drawn below a
\* caller that divides by its own density, and the call returned the emission
C13_Witness ==
    /\ scatter_event # None
    /\ cam_lights
    /\ scatter_event.pdf_built
    /\ ~IsFinite(scatter_event.density)
    /\ color_pc = "return"
    /\ color_result.depth = scatter_event.depth
    /\ color_result.kind = "emission"
    /\ Len(color_stack) > 0
    /\ color_stack[Len(color_stack)].mode = "diffuse"

\* scatter returned true and left the record with skip_pdf false and no PDF
PdfMissing(event) == event.scattered /\ ~event.skip_pdf /\ ~event.has_pdf

\* C14: when a material's scatter returns true with skip_pdf false and
\* pdf_ptr None, ray_color panics: it builds no density, makes no recursive
\* call and returns no colour, with a light list and without; and it panics
\* in no other case.
C14_MissingPdfPanics ==
    /\ scatter_event # None /\ PdfMissing(scatter_event) =>
          /\ scatter_event.outcome = "panic"
          /\ ~scatter_event.pdf_built
          /\ color_pc = "panic"
          /\ color_result = None
          /\ call_depth = scatter_event.depth
    /\ color_pc = "panic" => scatter_event # None /\ PdfMissing(scatter_event)

\* below two callers, with a light list, a material left the record without
\* a PDF
C14_Witness ==
    /\ color_pc = "panic"
    /\ cam_lights
    /\ Len(color_stack) = 2
    /\ scatter_event.outcome = "panic"

\* the same without a light list
C14_WitnessNoLights ==
    /\ color_pc = "panic"
    /\ ~cam_lights
    /\ scatter_event.outcome = "panic"

\* the caller on top of the stack
TopFrame == color_stack[Len(color_stack)]

\* C18: when scatter leaves a specular record (skip_pdf true), ray_color makes
\* exactly one recursive call, on skip_pdf_ray with depth - 1, and returns
\* emission + attenuation * its result; it builds and evaluates no PDF, does
\* not call scattering_pdf and applies no roulette, at any depth.
C18_SpecularBounce ==
    [][/\ (color_pc = "scatter" /\ scatter_event' # None /\ scatter_event'.scattered
                /\ scatter_event'.skip_pdf) =>
              /\ scatter_event'.mode = "specular"
              /\ ~scatter_event'.pdf_built
              /\ ~scatter_event'.spdf_called
              /\ scatter_event'.roulette = "none"
              /\ color_pc' = "enter"
              /\ call_depth' = call_depth - 1
              /\ Len(color_stack') = Len(color_stack) + 1
              /\ color_stack'[Len(color_stack')].mode = "specular"
              /\ color_stack'[Len(color_stack')].depth = call_depth
              /\ color_stack'[Len(color_stack')].emission = MaterialEmitted(rec_mat)
              /\ color_stack'[Len(color_stack')].ray
                     = MaterialScatter(rec_mat, ScatterRecordNew, TRUE, None).srec.skip_pdf_ray
              /\ color_stack'[Len(color_stack')].attenuation
                     = MaterialScatter(rec_mat, ScatterRecordNew, TRUE, None).srec.attenuation
       /\ (color_pc = "return" /\ color_stack # <<>> /\ color_stack' # color_stack
                /\ TopFrame.mode = "specular") =>
              /\ color_result'.depth = TopFrame.depth
              /\ color_result'.calls = 1
              /\ color_result'.value
                     = QAdd(TopFrame.emission, QMul(TopFrame.attenuation, color_result.value))]_vars

\* a mirror hit where the roulette would apply to a diffuse bounce; the
\* reflected ray leaves the scene and the call returns half the background
C18_Witness ==
    /\ color_pc = "return"
    /\ color_result.kind = "combined"
    /\ scatter_event.depth = color_result.depth
    /\ scatter_event.depth > 3
    /\ scatter_event.skip_pdf
    /\ scatter_event.attenuation = Q(1, 2)
    /\ color_result.value = Q(1, 8)

\* the probability that random_double(), uniform on [0, 1), is at most x
ProbabilityAtMost(x) == QMax(I(0), QMin(I(1), x))

\* emission + attenuation * scattering_pdf * radiance / density
UnscaledValue(frame, radiance) ==
    QAdd(frame.emission,
         QDiv(QMul(frame.attenuation, QMul(frame.scattering_pdf, radiance)), frame.pdf_value))

\* C19: where the roulette applies, the path is killed exactly when the draw
\* exceeds 0.8 and then returns exactly the emission, with no recursive call;
\* a surviving path returns
\* emission + (1 / 0.8) * attenuation * scattering_pdf * radiance / density;
\* weighted by the probabilities of the two cases, the returned value equals
\* the value the call returns without roulette.
C19_RouletteUnbiased ==
    [][/\ (color_pc = "scatter" /\ scatter_event' # None
                /\ scatter_event'.roulette # "none") =>
              /\ RouletteApplies(call_depth)
              /\ scatter_event'.roulette = "kill" <=> QLt(Q(4, 5), scatter_event'.draw)
              /\ scatter_event'.roulette = "kill" =>
                     /\ color_pc' = "return"
                     /\ color_stack' = color_stack
                     /\ color_result' = Returned("emission", MaterialEmitted(rec_mat),
                                                 call_depth, TRUE, 0)
              /\ scatter_event'.roulette = "survive" =>
                     /\ color_pc' = "enter"
                     /\ call_depth' = call_depth - 1
                     /\ color_stack'[Len(color_stack')].roulette = "survive"
                     /\ color_stack'[Len(color_stack')].emission = MaterialEmitted(rec_mat)
       /\ (color_pc = "return" /\ color_stack # <<>> /\ color_stack' # color_stack
                /\ TopFrame.roulette = "survive") =>
              /\ color_result'.calls = 1
              /\ color_result'.value
                     = QAdd(TopFrame.emission,
                            QDiv(QMul(Q(5, 4),
                                      QMul(TopFrame.attenuation,
                                           QMul(TopFrame.scattering_pdf, color_result.value))),
                                 TopFrame.pdf_value))
              /\ QAdd(QMul(ProbabilityAtMost(rr_prob), color_result'.value),
                      QMul(QSub(I(1), ProbabilityAtMost(rr_prob)), TopFrame.emission))
                     = UnscaledValue(TopFrame, color_result.value)]_vars

\* a diffuse bounce that survived the roulette and whose recursive call came
\* back with light: the value returned is more than the emission
C19_Witness ==
    /\ color_pc = "return"
    /\ color_result.kind = "combined"
    /\ scatter_event.depth = color_result.depth
    /\ scatter_event.roulette = "survive"
    /\ scatter_event.draw = Q(4, 5)
    /\ QLt(scatter_event.emission, color_result.value)

----------------------------------------------------------------------------
(* SpecPixel: Camera::initialize, the samples calculate_pixel_color adds up *)
(* for one pixel, and the averaging of color_to_rgb_with_samples            *)

\* largest samples_per_pixel configured
MaxSamples == 10

\* values ray_color returns for a sample, one colour channel
Radiances == {I(0), Q(1, 2), I(4)}

InitPixel ==
    /\ IdleAabb /\ IdleHit /\ IdleMix /\ IdleColor /\ IdleRender /\ IdlePdf
    /\ IdleTranslate /\ IdleScatter /\ IdleBox /\ IdleTexture /\ IdleMedium
    /\ IdleSphere /\ IdleGamma /\ IdleBuild
    /\ samples_per_pixel \in 1..MaxSamples
    /\ sqrt_spp = 0
    /\ pixel_pc = "configured"
    /\ samples_taken = 0
    /\ pixel_sum = None
    /\ linear_out = None

\* Camera::initialize, then calculate_pixel_color starts from Color::zeros
Initialize ==
    /\ pixel_pc = "configured"
    /\ sqrt_spp' = SqrtSpp(samples_per_pixel)
    /\ pixel_sum' = I(0)
    /\ pixel_pc' = "sampling"
    /\ UNCHANGED <<samples_per_pixel, samples_taken, linear_out>>

\* one sample_idx of calculate_pixel_color: acc + ray_color(...)
AddSample(radiance) ==
    /\ pixel_pc = "sampling"
    /\ samples_taken < TotalSamples(sqrt_spp)
    /\ pixel_sum' = QAdd(pixel_sum, radiance)
    /\ samples_taken' = samples_taken + 1
    /\ UNCHANGED <<samples_per_pixel, sqrt_spp, pixel_pc, linear_out>>

\* render hands the sum to color_to_rgb_with_samples(&color, samples_per_pixel)
OutputPixel ==
    /\ pixel_pc = "sampling"
    /\ samples_taken = TotalSamples(sqrt_spp)
    /\ linear_out' = AveragedChannel(pixel_sum, samples_per_pixel)
    /\ pixel_pc' = "output"
    /\ UNCHANGED <<samples_per_pixel, sqrt_spp, samples_taken, pixel_sum>>

NextPixel ==
    /\ \/ Initialize
       \/ \E radiance \in Radiances : AddSample(radiance)
       \/ OutputPixel
    /\ UNCHANGED notPixel

SpecPixel == InitPixel /\ [][NextPixel]_vars

\* C5: the linear colour of a pixel handed to the output stage is the average
\* of its radiance samples: the accumulated sum divided by the number of
\* samples taken, sqrt_spp * sqrt_spp with sqrt_spp = floor(sqrt(samples_per_pixel)).
C5_PixelIsSampleAverage ==
    pixel_pc = "output" =>
        /\ samples_taken = ISqrt(samples_per_pixel) * ISqrt(samples_per_pixel)
        /\ linear_out = QDiv(pixel_sum, I(samples_taken))

----------------------------------------------------------------------------
(* SpecRender: Camera::render, its tile tasks run in any order *)

\* largest image_width configured
MaxWidth == 33

Widths == {1, tile_size, tile_size + 1, MaxWidth}

AspectRatios == {I(1), Q(3, 2), I(40)}

NumTasks == NumTiles(image_width) * NumTiles(image_height)

InitRender ==
    /\ IdleAabb /\ IdleHit /\ IdleMix /\ IdleColor /\ IdlePixel /\ IdlePdf
    /\ IdleTranslate /\ IdleScatter /\ IdleBox /\ IdleTexture /\ IdleMedium
    /\ IdleSphere /\ IdleGamma /\ IdleBuild
    /\ image_width \in Widths
    /\ aspect_ratio \in AspectRatios
    /\ image_height = 0
    /\ render_pc = "configured"
    /\ tile_results = <<>>
    /\ pixel_colors = <<>>
    /\ img = None
    /\ save_result = None

\* self.initialize() and the set-up of the tile tasks
RenderInitialize ==
    /\ render_pc = "configured"
    /\ image_height' = ImageHeight(image_width, aspect_ratio)
    /\ tile_results' = [t \in 1..(NumTiles(image_width)
                                   * NumTiles(ImageHeight(image_width, aspect_ratio)))
                           |-> Pending]
    /\ render_pc' = "tiles"
    /\ UNCHANGED <<image_width, aspect_ratio, pixel_colors, img, save_result>>

\* the task of tile tile_idx runs, whenever the pool schedules it
RunTile(tile_idx) ==
    /\ render_pc = "tiles"
    /\ ~tile_results[tile_idx + 1].done
    /\ tile_results' = [tile_results EXCEPT
                           ![tile_idx + 1] =
                               Done(TileTask(tile_idx, image_width, image_height))]
    /\ UNCHANGED <<image_width, aspect_ratio, image_height, render_pc, pixel_colors, img,
                   save_result>>

\* collect(), once every task has run
Collect ==
    /\ render_pc = "tiles"
    /\ \A t \in 1..NumTasks : tile_results[t].done
    /\ pixel_colors' = Flatten(tile_results, NumTasks)
    /\ render_pc' = "collected"
    /\ UNCHANGED <<image_width, aspect_ratio, image_height, tile_results, img, save_result>>

\* the loop of put_pixel; put_pixel panics outside the image
Fill ==
    /\ render_pc = "collected"
    /\ IF \A k \in 1..Len(pixel_colors) :
             InImage(pixel_colors[k][1], pixel_colors[k][2], image_width, image_height)
       THEN /\ img' = FillImage(pixel_colors, image_width, image_height)
            /\ render_pc' = "filled"
       ELSE /\ render_pc' = "panic"
            /\ UNCHANGED img
    /\ UNCHANGED <<image_width, aspect_ratio, image_height, tile_results, pixel_colors,
                   save_result>>

\* a save that smears the first pixel over the buffer when the write fails
SaveSlip(ok) ==
    /\ render_pc = "filled"
    /\ save_result' = IF ok THEN "Ok" ELSE "Err"
    /\ render_pc' = "saved"
    /\ img' = IF ok THEN img ELSE [p \in DOMAIN img |-> img[<<0, 0>>]]
    /\ UNCHANGED <<image_width, aspect_ratio, image_height, tile_results, pixel_colors>>

\* img.save(&self.output_filename), reported either way
Save(ok) ==
    /\ render_pc = "filled"
    /\ save_result' = IF ok THEN "Ok" ELSE "Err"
    /\ render_pc' = "saved"
    /\ UNCHANGED <<image_width, aspect_ratio, image_height, tile_results, pixel_colors, img>>

NextRender ==
    /\ \/ RenderInitialize
       \/ \E tile_idx \in 0..(NumTasks - 1) : RunTile(tile_idx)
       \/ Collect
       \/ Fill
       \/ \E ok \in BOOLEAN : Save(ok)
    /\ UNCHANGED notRender

SpecRender == InitRender /\ [][NextRender]_vars

\* the triples computed so far, by all tasks that have run, each named by its
\* task and its place in the task's results
ComputedSoFar ==
    UNION {{<<t, k>> : k \in DOMAIN tile_results[t].triples} : t \in DOMAIN tile_results}

TripleAt(tk) == tile_results[tk[1]].triples[tk[2]]

\* C6: for every image width and height >= 1 and every order in which the
\* 16x16 tile tasks run: no pixel outside the image is computed and no pixel is
\* computed twice, by the same or by different tiles; once all tasks have run,
\* every pixel of the image has been computed exactly once, and the image
\* holds at every (i, j) the colour computed for (i, j), whatever the order.
C6_EachPixelOnce ==
    /\ render_pc # "panic"
    /\ render_pc \notin {"idle", "configured"} => image_width >= 1 /\ image_height >= 1
    /\ \A a \in ComputedSoFar :
          InImage(TripleAt(a)[1], TripleAt(a)[2], image_width, image_height)
    /\ Cardinality({<<TripleAt(a)[1], TripleAt(a)[2]>> : a \in ComputedSoFar})
          = Cardinality(ComputedSoFar)
    /\ render_pc \in {"collected", "filled", "saved"} =>
          /\ Cardinality(ComputedSoFar) = image_width * image_height
          /\ Len(pixel_colors) = image_width * image_height
    /\ render_pc \in {"filled", "saved"} =>
          \A p \in DOMAIN img : img[p] = Rgb(PixelColor(p[1], p[2]))

\* an image of several tiles in both directions, the last column and row of
\* tiles cut by the image border, filled
C6_Witness ==
    /\ render_pc = "filled"
    /\ image_width = MaxWidth
    /\ image_height = MaxWidth
    /\ Len(tile_results) = 9

\* every pixel of the image has been computed, collected and put into img
AllPixelsStored ==
    /\ \A t \in DOMAIN tile_results : tile_results[t].done
    /\ Len(pixel_colors) = image_width * image_height
    /\ \A i \in 0..(image_width - 1), j \in 0..(image_height - 1) :
           /\ \E k \in 1..Len(pixel_colors) : pixel_colors[k] = <<i, j, PixelColor(i, j)>>
           /\ <<i, j>> \in DOMAIN img
           /\ img[<<i, j>>] = Rgb(PixelColor(i, j))

\* C17: the image is written only once every pixel has been computed and
\* stored; the write, failed or not, is reported and render returns without a
\* panic; the write leaves the computed pixels and the image buffer as they
\* were.
C17_WriteAfterAllPixels ==
    [][(render_pc = "filled" /\ render_pc' # "filled") =>
           /\ AllPixelsStored
           /\ save_result' \in {"Ok", "Err"}
           /\ render_pc' = "saved"
           /\ img' = img
           /\ pixel_colors' = pixel_colors
           /\ tile_results' = tile_results
           /\ AllPixelsStored']_vars

\* a failed write of an image of several tiles
C17_Witness ==
    /\ render_pc = "saved"
    /\ save_result = "Err"
    /\ image_width = tile_size + 1
    /\ Len(tile_results) > 1
    /\ AllPixelsStored

----------------------------------------------------------------------------
(* SpecPdf: a list of quad lights and the BVH built over it, asked for      *)
(* pdf_value and for the targets of random                                  *)

\* largest number of lights in the list
MaxLights == 3

LightC == QuadNew(P3(-2, -2, 5), P3(4, 0, 0), P3(0, 4, 0), "lamp")

Lights == {QuadA, QuadB, LightC}

Origins == {<<Q(1, 2), Q(1, 2), I(-1)>>, P3(3, 3, -1)}

Directions == {P3(0, 0, 1), P3(0, 0, 2), P3(0, 0, -1)}

InitPdf ==
    /\ IdleAabb /\ IdleHit /\ IdleMix /\ IdleColor /\ IdlePixel /\ IdleRender
    /\ IdleTranslate /\ IdleScatter /\ IdleBox /\ IdleTexture /\ IdleMedium
    /\ IdleSphere /\ IdleGamma /\ IdleBuild
    /\ light_list = HittableListNew
    /\ light_bvh = None
    /\ pdf_origin = None /\ pdf_direction = None
    /\ pdf_list = None /\ pdf_bvh = None /\ reach_list = <<>> /\ reach_bvh = <<>>

\* light_list.add(light), each light once
AddLight(light) ==
    /\ light_bvh = None
    /\ Len(light_list.objects) < MaxLights
    /\ \A i \in 1..Len(light_list.objects) : light_list.objects[i] # light
    /\ light_list' = HittableListAdd(light_list, light)
    /\ UNCHANGED <<light_bvh, pdf_origin, pdf_direction, pdf_list, pdf_bvh, reach_list,
                   reach_bvh>>

\* BvhNode::new(&light_list)
BuildLightBvh ==
    /\ light_bvh = None
    /\ Len(light_list.objects) > 0
    /\ light_bvh' = BvhNodeNew(light_list)
    /\ UNCHANGED <<light_list, pdf_origin, pdf_direction, pdf_list, pdf_bvh, reach_list,
                   reach_bvh>>

\* light_list.pdf_value(origin, direction)
ListPdfValue(origin, direction) ==
    /\ light_bvh # None
    /\ pdf_list = None
    /\ pdf_origin' = origin
    /\ pdf_direction' = direction
    /\ pdf_list' = HittableListPdfValue(light_list, origin, direction)
    /\ UNCHANGED <<light_list, light_bvh, pdf_bvh, reach_list, reach_bvh>>

\* light_bvh.pdf_value(origin, direction), the same arguments
BvhPdfValue ==
    /\ pdf_list # None
    /\ pdf_bvh = None
    /\ pdf_bvh' = BvhNodePdfValue(light_bvh, pdf_origin, pdf_direction)
    /\ UNCHANGED <<light_list, light_bvh, pdf_origin, pdf_direction, pdf_list, reach_list,
                   reach_bvh>>

\* the distributions of light_list.random(origin) and light_bvh.random(origin)
\* over the lights
RandomTargets ==
    /\ light_bvh # None
    /\ reach_list = <<>>
    /\ reach_list' = [i \in 1..Len(light_list.objects) |-> HittableListReach(light_list, i)]
    /\ reach_bvh' = [i \in 1..Len(light_list.objects) |->
                        BvhNodeReach(light_bvh, light_list.objects[i])]
    /\ UNCHANGED <<light_list, light_bvh, pdf_origin, pdf_direction, pdf_list, pdf_bvh>>

NextPdf ==
    /\ \/ \E light \in Lights : AddLight(light)
       \/ BuildLightBvh
       \/ \E origin \in Origins, direction \in Directions : ListPdfValue(origin, direction)
       \/ BvhPdfValue
       \/ RandomTargets
    /\ UNCHANGED notPdf

SpecPdf == InitPdf /\ [][NextPdf]_vars

\* C7: the BvhNode built over a non-empty list of lights returns the same
\* pdf_value as the list (the unweighted average over the n lights), and its
\* random() delegates to each light with the probability 1/n of the list's random().
C7_BvhSamplesLikeList ==
    /\ pdf_bvh # None => pdf_bvh = pdf_list
    /\ reach_bvh # <<>> =>
          \A i \in 1..Len(light_list.objects) :
              /\ reach_list[i] = QDiv(I(1), I(Len(light_list.objects)))
              /\ reach_bvh[i] = reach_list[i]

----------------------------------------------------------------------------
(* SpecTranslate: an object translated by v and then by -v, queried next to *)
(* the object itself. The additions of Translate::hit round as f64          *)
(* additions do, to MantissaDigits significant bits.                        *)

\* the significant bits of the floating-point format (f64 has 53)
MantissaDigits == 4

Box2 == BoxNew(P3(0, 0, 0), P3(2, 2, 2), "blue")

TranslateObjects == {QuadA, QuadB, SphereA, Box2}

Offsets == {P3(0, 0, 0), P3(8, 0, 0), P3(1, 2, -3), <<Q(1, 2), I(8), I(0)>>}

TranslateRays ==
    {Ray(<<Q(9, 8), Q(1, 2), I(-1)>>, P3(0, 0, 1), I(0)),
     Ray(<<Q(5, 8), Q(1, 2), I(-1)>>, P3(0, 0, 1), I(0)),
     Ray(P3(1, 1, -1), P3(0, 0, 1), I(0)),
     Ray(P3(3, 0, 10), P3(0, 0, -1), I(0)),
     Ray(P3(-1, 1, 1), P3(1, -1, -1), I(0))}

TranslateIntervals == {Interval(TMinBias, INFINITY), Interval(TMinBias, I(1))}

InitTranslate ==
    /\ IdleAabb /\ IdleHit /\ IdleMix /\ IdleColor /\ IdlePixel /\ IdleRender /\ IdlePdf
    /\ IdleScatter /\ IdleBox /\ IdleTexture /\ IdleMedium /\ IdleSphere
    /\ IdleGamma /\ IdleBuild
    /\ mantissa_digits = MantissaDigits
    /\ tr_object = None /\ tr_offset = None /\ tr_wrapped = None
    /\ tr_ray = None /\ tr_t = None /\ tr_direct = None /\ tr_round = None

\* Translate::new(Arc::new(Translate::new(object, v)), -v)
WrapThereAndBack(object, v) ==
    /\ tr_wrapped = None
    /\ tr_object' = object
    /\ tr_offset' = v
    /\ tr_wrapped' = TranslateNew(TranslateNew(object, v), VNeg(v))
    /\ UNCHANGED <<mantissa_digits, tr_ray, tr_t, tr_direct, tr_round>>

\* tr_object.hit(r, t, &mut rec)
HitObject(r, t) ==
    /\ tr_wrapped # None
    /\ tr_direct = None
    /\ Representable(tr_object, r)
    /\ Representable(tr_wrapped, r)
    /\ tr_ray' = r
    /\ tr_t' = t
    /\ tr_direct' = Hit(tr_object, r, t, HitRecordDefault, RndSource(<<I(-1)>>))
    /\ UNCHANGED <<mantissa_digits, tr_object, tr_offset, tr_wrapped, tr_round>>

\* tr_wrapped.hit(r, t, &mut rec) for the same ray and interval
HitWrapped ==
    /\ tr_direct # None
    /\ tr_round = None
    /\ tr_round' = Hit(tr_wrapped, tr_ray, tr_t, HitRecordDefault, RndSource(<<I(-1)>>))
    /\ UNCHANGED <<mantissa_digits, tr_object, tr_offset, tr_wrapped, tr_ray, tr_t,
                   tr_direct>>

NextTranslate ==
    /\ \/ \E object \in TranslateObjects, v \in Offsets : WrapThereAndBack(object, v)
       \/ \E r \in TranslateRays, t \in TranslateIntervals : HitObject(r, t)
       \/ HitWrapped
    /\ UNCHANGED notTranslate

SpecTranslate == InitTranslate /\ [][NextTranslate]_vars

\* C11 as stated: the object translated by v and then by -v answers every
\* query with the same hit/miss and the same record (point, normal, t) as the
\* object itself.
C11_RoundTripSame == tr_round # None => SameHit(tr_round, tr_direct)

\* the origin as the inner object receives it: (orig - (-v)) - v, each
\* subtraction rounded
OriginThereAndBack(orig, v) == VRound(VSub(VRound(VSub(orig, VNeg(v))), v))

\* the point as the caller receives it: (p + v) + (-v), each addition rounded
PointThereAndBack(p, v) == VRound(VAdd(VRound(VAdd(p, v)), VNeg(v)))

\* |b - a| <= 3 * 2^-MantissaDigits * (|a| + |v|) on every axis: b is a up to
\* the rounding of two additions with v
WithinRounding(b, a, v) ==
    \A k \in 1..3 :
        QLe(QAbs(QSub(b[k], a[k])),
            QMul(Q(3, Pow2(mantissa_digits)), QAdd(QAbs(a[k]), QAbs(v[k]))))

\* what the object answers for the ray whose origin went there and back
InnerAnswer ==
    Hit(tr_object, Ray(OriginThereAndBack(tr_ray.orig, tr_offset), tr_ray.dir, tr_ray.time),
        tr_t, HitRecordDefault, RndSource(<<I(-1)>>))

\* C11 amended: the object translated by v and then by -v answers as the
\* object itself answers the ray whose origin is (orig + v) - v, and hands
\* back that answer's point p as (p + v) - v; origin and point are off by the
\* rounding of the two additions at most, and hit/miss and record are the
\* object's own whenever those additions are exact.
C11_RoundTripWithinRounding ==
    tr_round # None =>
        LET o2 == OriginThereAndBack(tr_ray.orig, tr_offset)
            inner == InnerAnswer
        IN  /\ tr_round.hit = inner.hit
            /\ WithinRounding(o2, tr_ray.orig, tr_offset)
            /\ inner.hit =>
                  /\ tr_round.rec.t = inner.rec.t
                  /\ tr_round.rec.normal = inner.rec.normal
                  /\ tr_round.rec.mat = inner.rec.mat
                  /\ tr_round.rec.p = PointThereAndBack(inner.rec.p, tr_offset)
                  /\ WithinRounding(tr_round.rec.p, inner.rec.p, tr_offset)
            /\ (/\ o2 = tr_ray.orig
                /\ inner.hit => PointThereAndBack(inner.rec.p, tr_offset) = inner.rec.p)
                   => SameHit(tr_round, tr_direct)

\* both queries hit, and the additions with v were not exact
C11_Witness ==
    /\ tr_round # None
    /\ tr_round.hit /\ tr_direct.hit
    /\ OriginThereAndBack(tr_ray.orig, tr_offset) # tr_ray.orig
    /\ tr_round.rec.p # tr_direct.rec.p

----------------------------------------------------------------------------
(* SpecScatter: one ScatterRecord, reused across scatter calls of the      *)
(* materials and direct set_specular / set_diffuse calls                   *)

\* calls made on one record
MaxScatterCalls == 3

Albedos == {Q(1, 2), I(1)}

ScatterMaterials ==
    {Lambertian(a) : a \in Albedos} \cup {Metal(a) : a \in Albedos}
        \cup {Isotropic(a) : a \in Albedos}
        \cup {Dielectric, DiffuseLight(I(4)), NoMaterial}

\* the PDF object a material builds: CosinePDF for Lambertian, SpherePDF for
\* Isotropic
BuiltPdf(mat) ==
    IF mat.kind = "isotropic" THEN [pdf |-> "SpherePDF"] ELSE [pdf |-> "CosinePDF"]

InitScatter ==
    /\ IdleAabb /\ IdleHit /\ IdleMix /\ IdleColor /\ IdlePixel /\ IdleRender /\ IdlePdf
    /\ IdleTranslate /\ IdleBox /\ IdleTexture /\ IdleMedium /\ IdleSphere
    /\ IdleGamma /\ IdleBuild
    /\ scatter_rec = None /\ scatter_rec_before = None /\ scatter_pc = "idle" /\ scatter_calls = 0

\* ScatterRecord::new()
NewRecord ==
    /\ scatter_pc = "idle"
    /\ scatter_rec' = ScatterRecordNew
    /\ scatter_rec_before' = None
    /\ scatter_pc' = "fresh"
    /\ UNCHANGED scatter_calls

\* mat.scatter(r_in, rec, &mut srec)
Scatter(mat, above) ==
    /\ scatter_pc # "idle"
    /\ scatter_calls < MaxScatterCalls
    /\ LET s == MaterialScatter(mat, scatter_rec, above, BuiltPdf(mat))
       IN  /\ scatter_rec' = s.srec
           /\ scatter_pc' = IF s.scattered THEN "scattered" ELSE "absorbed"
    /\ scatter_rec_before' = scatter_rec
    /\ scatter_calls' = scatter_calls + 1

\* srec.set_specular(attenuation, ray)
CallSetSpecular(attenuation) ==
    /\ scatter_pc # "idle"
    /\ scatter_calls < MaxScatterCalls
    /\ scatter_rec' = SetSpecular(scatter_rec, attenuation, [ray |-> "given_ray"])
    /\ scatter_pc' = "set_specular"
    /\ scatter_rec_before' = scatter_rec
    /\ scatter_calls' = scatter_calls + 1

\* srec.set_diffuse(attenuation, pdf)
CallSetDiffuse(attenuation, pdf) ==
    /\ scatter_pc # "idle"
    /\ scatter_calls < MaxScatterCalls
    /\ scatter_rec' = SetDiffuse(scatter_rec, attenuation, pdf)
    /\ scatter_pc' = "set_diffuse"
    /\ scatter_rec_before' = scatter_rec
    /\ scatter_calls' = scatter_calls + 1

NextScatter ==
    /\ \/ NewRecord
       \/ \E mat \in ScatterMaterials, above \in BOOLEAN : Scatter(mat, above)
       \/ \E a \in Albedos : CallSetSpecular(a)
       \/ \E a \in Albedos, k \in {"SpherePDF", "CosinePDF"} : CallSetDiffuse(a, [pdf |-> k])
    /\ UNCHANGED notScatter

SpecScatter == InitScatter /\ [][NextScatter]_vars

SpecularMode(rec) == rec.skip_pdf /\ rec.pdf_ptr = None /\ rec.skip_pdf_ray # None

DiffuseMode(rec) == ~rec.skip_pdf /\ rec.pdf_ptr # None

\* C12: after a scatter call that returned true, and after every set_specular
\* or set_diffuse call, the record is in exactly one mode: skip_pdf with a ray
\* and no PDF, or a PDF and skip_pdf false; whatever the record held before.
C12_ExactlyOneMode ==
    scatter_pc \in {"scattered", "set_specular", "set_diffuse"} =>
        /\ SpecularMode(scatter_rec) \/ DiffuseMode(scatter_rec)
        /\ ~(SpecularMode(scatter_rec) /\ DiffuseMode(scatter_rec))
        /\ scatter_rec.skip_pdf <=> scatter_rec.pdf_ptr = None

\* a record that was specular is reused by a diffuse material, and one that
\* was diffuse has been reused as specular before that
C12_Witness ==
    /\ scatter_pc = "scattered"
    /\ scatter_calls = MaxScatterCalls
    /\ scatter_rec_before # None /\ SpecularMode(scatter_rec_before)
    /\ DiffuseMode(scatter_rec)

----------------------------------------------------------------------------
(* SpecBox: objects built from the constructors, wrappers included, and     *)
(* what bounding_box() returns for them                                     *)

\* wrappers put around one object
MaxWraps == 2

\* a sphere of radius 0, a planar quad, a box, a moving sphere, a list with
\* nothing in it
BoxObjects ==
    {SphereA, SphereB, SphereNew(P3(1, 1, 1), I(0), "red"), QuadA, Box2, HittableListNew}

InitBox ==
    /\ IdleAabb /\ IdleHit /\ IdleMix /\ IdleColor /\ IdlePixel /\ IdleRender /\ IdlePdf
    /\ IdleTranslate /\ IdleScatter /\ IdleTexture /\ IdleMedium /\ IdleSphere
    /\ IdleGamma /\ IdleBuild
    /\ bb_object = None /\ bb_wraps = 0 /\ bb_result = None

\* Sphere::new, Sphere::new_moving, Quad::new, box_new, HittableList::new
Construct(object) ==
    /\ bb_object = None
    /\ bb_object' = object
    /\ UNCHANGED <<bb_wraps, bb_result>>

\* the object is replaced by a wrapper around it
Wrap(wrapper) ==
    /\ bb_object # None
    /\ bb_result = None
    /\ bb_wraps < MaxWraps
    /\ bb_object' = wrapper
    /\ bb_wraps' = bb_wraps + 1
    /\ UNCHANGED bb_result

\* Translate::new(object, offset)
WrapTranslate(offset) == Wrap(TranslateNew(bb_object, offset))

\* RotateY::new(object, 90.0)
WrapRotateY == Wrap(RotateYNew(bb_object, I(1), I(0)))

\* ConstantMedium::new(object, density, texture)
WrapMedium == Wrap(ConstantMediumNew(bb_object, Q(1, 4), "smoke"))

\* a HittableList the object is added to
WrapList == Wrap(HittableListAdd(HittableListNew, bb_object))

\* BvhNode::new over the list holding the object
WrapBvh == Wrap(BvhNodeNew(HittableListAdd(HittableListNew, bb_object)))

\* object.bounding_box()
AskBoundingBox ==
    /\ bb_object # None
    /\ bb_result = None
    /\ bb_result' = [box |-> BoundingBox(bb_object)]
    /\ UNCHANGED <<bb_object, bb_wraps>>

NextBox ==
    /\ \/ \E object \in BoxObjects : Construct(object)
       \/ \E offset \in Offsets : WrapTranslate(offset)
       \/ WrapRotateY
       \/ WrapMedium
       \/ WrapList
       \/ WrapBvh
       \/ AskBoundingBox
    /\ UNCHANGED notBox

SpecBox == InitBox /\ [][NextBox]_vars

RECURSIVE HasExtent(_)
\* the object holds a sphere or a quad somewhere
HasExtent(obj) ==
    CASE obj.kind \in {"sphere", "quad"} -> TRUE
      [] obj.kind = "list" -> \E i \in 1..Len(obj.objects) : HasExtent(obj.objects[i])
      [] obj.kind = "bvh" -> HasExtent(obj.left) \/ HasExtent(obj.right)
      [] obj.kind \in {"translate", "rotate_y"} -> HasExtent(obj.object)
      [] obj.kind = "medium" -> HasExtent(obj.boundary)

\* finite, and at least the padding thickness wide
PaddedInterval(iv) ==
    IsFinite(iv.min) /\ IsFinite(iv.max) /\ QLe(DELTA, IntervalSize(iv))

FinitePadded(b) == PaddedInterval(b.x) /\ PaddedInterval(b.y) /\ PaddedInterval(b.z)

\* C15: bounding_box returns None only for an object with no spatial extent,
\* and every Some(box) it returns is finite and at least 0.0001 wide on every
\* axis, wrappers around an object without a bounding box included.
C15_BoxFinitePadded ==
    bb_result # None =>
        /\ bb_result.box = None => ~HasExtent(bb_object)
        /\ bb_result.box # None => FinitePadded(bb_result.box)

----------------------------------------------------------------------------
(* SpecTexture: ImageTexture::new over a file system where the image may    *)
(* be missing at any of the places it is looked for, and value              *)

image_filename == "earthmap.jpg"

\* the value of RTW_IMAGES when it is set
ImageDir == "images"

\* the paths tried first, in order
paths == <<image_filename, "textures/" \o image_filename, "../textures/" \o image_filename>>

full_path(image_dir) == image_dir \o "/" \o image_filename

AllPaths == {paths[k] : k \in 1..Len(paths)} \cup {full_path(ImageDir)}

\* decoded images: width, height and the bytes of each pixel
ImageRed == [width |-> 1, height |-> 1, pixels |-> [ij \in {<<0, 0>>} |-> <<255, 0, 0>>]]

ImageGrid ==
    [width |-> 2, height |-> 2,
     pixels |-> [ij \in {<<0, 0>>, <<1, 0>>, <<0, 1>>, <<1, 1>>} |-> <<51 * ij[1], 102 * ij[2], 255>>]]

Images == {ImageRed, ImageGrid}

\* texture coordinates, inside and outside [0, 1], and NaN
TextureCoords == {Q(-1, 2), Q(1, 2), I(1), Q(3, 2), NAN}

TexturePoints == {P3(0, 0, 0), P3(1, 2, 3)}

\* image::open(path)
ImageOpen(files, path) == files[path]

\* ImageTexture::from_image
FromImage(opened) == [image |-> opened, width |-> opened.width, height |-> opened.height]

RECURSIVE FirstOpen(_, _)
\* the loop over paths: the first one that opens, None when none does
FirstOpen(files, k) ==
    IF k > Len(paths) THEN None
    ELSE IF ImageOpen(files, paths[k]) # None THEN ImageOpen(files, paths[k])
    ELSE FirstOpen(files, k + 1)

\* ImageTexture::new
ImageTextureNew(files, env) ==
    LET opened == FirstOpen(files, 1) IN
    IF opened # None THEN FromImage(opened)
    ELSE IF env.set /\ ImageOpen(files, full_path(env.value)) # None
         THEN FromImage(ImageOpen(files, full_path(env.value)))
    ELSE [image |-> None, width |-> 0, height |-> 0]

\* f64::clamp
F64Clamp(x, lo, hi) ==
    IF IsNaN(x) THEN x ELSE IF QLt(x, lo) THEN lo ELSE IF QLt(hi, x) THEN hi ELSE x

\* x as u32: truncates toward zero, NaN and negatives become 0 (x is a
\* clamped coordinate times a width here, far below u32::MAX)
AsU32(x) ==
    IF IsNaN(x) \/ QLe(x, I(0)) THEN 0 ELSE x[1] \div x[2]

IMin(a, b) == IF a <= b THEN a ELSE b

\* the texel of value, once the texture is known to have rows
Texel(tex, u, v) ==
    LET u_clamped == F64Clamp(u, I(0), I(1))
        v_clamped == QSub(I(1), F64Clamp(v, I(0), I(1)))
        i0 == AsU32(QMul(u_clamped, I(tex.width)))
        j0 == AsU32(QMul(v_clamped, I(tex.height)))
    IN  IF tex.width = 0 THEN [outcome |-> "panic"]
        ELSE LET i == IMin(i0, tex.width - 1)
                 j == IMin(j0, tex.height - 1)
             IN  IF tex.image # None
                 THEN LET pixel == tex.image.pixels[<<i, j>>]
                      IN  [outcome |-> "return",
                           color |-> <<Q(pixel[1], 255), Q(pixel[2], 255), Q(pixel[3], 255)>>]
                 ELSE [outcome |-> "return", color |-> <<I(0), I(1), I(1)>>]

\* value without the early return for a texture that has no rows
ImageTextureValueSlip(tex, u, v, p) == Texel(tex, u, v)

\* ImageTexture::value
ImageTextureValue(tex, u, v, p) ==
    IF tex.height = 0 THEN [outcome |-> "return", color |-> <<I(0), I(1), I(1)>>]
    ELSE Texel(tex, u, v)

InitTexture ==
    /\ IdleAabb /\ IdleHit /\ IdleMix /\ IdleColor /\ IdlePixel /\ IdleRender /\ IdlePdf
    /\ IdleTranslate /\ IdleScatter /\ IdleBox /\ IdleMedium /\ IdleSphere
    /\ IdleGamma /\ IdleBuild
    /\ tex_files \in [AllPaths -> Images \cup {None}]
    /\ tex_env \in {[set |-> FALSE], [set |-> TRUE, value |-> ImageDir]}
    /\ tex_texture = None
    /\ tex_value = None

\* let texture = ImageTexture::new(image_filename)
NewTexture ==
    /\ tex_texture = None
    /\ tex_texture' = ImageTextureNew(tex_files, tex_env)
    /\ UNCHANGED <<tex_files, tex_env, tex_value>>

\* texture.value(u, v, p)
CallValue(u, v, p) ==
    /\ tex_texture # None
    /\ tex_value' = [u |-> u, v |-> v, p |-> p] @@ ImageTextureValue(tex_texture, u, v, p)
    /\ UNCHANGED <<tex_files, tex_env, tex_texture>>

NextTexture ==
    /\ \/ NewTexture
       \/ \E u \in TextureCoords, v \in TextureCoords, p \in TexturePoints : CallValue(u, v, p)
    /\ UNCHANGED notTexture

SpecTexture == InitTexture /\ [][NextTexture]_vars

\* the places new looks at, in the order it tries them
Candidates == paths \o (IF tex_env.set THEN <<full_path(tex_env.value)>> ELSE <<>>)

NothingOpens == \A k \in 1..Len(Candidates) : tex_files[Candidates[k]] = None

\* C16: when the image opens at none of the places new tries, new still
\* returns a texture and every value(u, v, p) of it returns cyan (0, 1, 1)
\* without panicking; when it opens somewhere, the texture holds the image of
\* the first place that opens.
C16_MissingImageIsCyan ==
    /\ (tex_texture # None /\ NothingOpens) =>
           /\ tex_texture.image = None
           /\ tex_value # None =>
                  (tex_value.outcome = "return" /\ tex_value.color = <<I(0), I(1), I(1)>>)
    /\ (tex_texture # None /\ ~NothingOpens) =>
           \E k \in 1..Len(Candidates) :
               /\ tex_files[Candidates[k]] # None
               /\ \A h \in 1..(k - 1) : tex_files[Candidates[h]] = None
               /\ tex_texture.image = tex_files[Candidates[k]]

C16_Witness ==
    /\ tex_texture # None
    /\ NothingOpens
    /\ tex_env.set
    /\ tex_value # None
    /\ tex_value.u = Q(3, 2)
    /\ tex_value.outcome = "return"

----------------------------------------------------------------------------
(* SpecMedium: a ConstantMedium around a boundary, and one query of its hit *)

\* a sphere, a closed box, and a single quad, which a ray crosses only once
Boundaries == {SphereA, Box2, QuadB}

MediumDensities == {Q(1, 4), I(1)}

\* rays that start outside and inside the boundaries, and one that misses them
MediumRays ==
    {Ray(P3(3, 0, 10), P3(0, 0, -1), I(0)),
     Ray(P3(1, 1, 10), P3(0, 0, -2), I(0)),
     Ray(P3(0, 0, 0), P3(0, 0, 2), I(0)),
     Ray(P3(1, 1, 1), P3(0, 0, 1), I(0)),
     Ray(P3(9, 9, 0), P3(0, 0, 1), I(0))}

MediumIntervals ==
    {Interval(TMinBias, INFINITY), Interval(TMinBias, I(7)), Interval(I(-20), I(-1)),
     Interval(I(-20), I(6)), Interval(I(20), I(30)), Interval(TMinBias, I(2))}

\* values of ln(random_double()): random_double() is in [0, 1)
MediumLnDraws == {Q(-1, 4), I(-1), I(-12), NEG_INFINITY}

InitMedium ==
    /\ IdleAabb /\ IdleHit /\ IdleMix /\ IdleColor /\ IdlePixel /\ IdleRender /\ IdlePdf
    /\ IdleTranslate /\ IdleScatter /\ IdleBox /\ IdleTexture /\ IdleSphere
    /\ IdleGamma /\ IdleBuild
    /\ md_medium = None /\ md_density = None /\ md_ray = None /\ md_t = None
    /\ md_rnd = None /\ md_result = None

\* ConstantMedium::new(boundary, density, texture)
NewMedium(boundary, density) ==
    /\ md_medium = None
    /\ md_medium' = ConstantMediumNew(boundary, density, "smoke")
    /\ md_density' = density
    /\ UNCHANGED <<md_ray, md_t, md_rnd, md_result>>

\* medium.hit(r, ray_t, &mut rec), the next ln(random_double()) being ln_draw
HitMedium(r, ray_t, ln_draw) ==
    /\ md_medium # None
    /\ md_result = None
    /\ md_ray' = r
    /\ md_t' = ray_t
    /\ md_rnd' = RndSource(<<ln_draw>>)
    /\ md_result' = Hit(md_medium, r, ray_t, HitRecordDefault, RndSource(<<ln_draw>>))
    /\ UNCHANGED <<md_medium, md_density>>

NextMedium ==
    /\ \/ \E boundary \in Boundaries, density \in MediumDensities : NewMedium(boundary, density)
       \/ \E r \in MediumRays, ray_t \in MediumIntervals, ln_draw \in MediumLnDraws :
              HitMedium(r, ray_t, ln_draw)
    /\ UNCHANGED notMedium

SpecMedium == InitMedium /\ [][NextMedium]_vars

\* the first crossing of the boundary anywhere on the ray's line
MediumEntry == Hit(md_medium.boundary, md_ray, IntervalUniverse, HitRecordDefault, md_rnd)

\* the next crossing after it
MediumExit ==
    Hit(md_medium.boundary, md_ray,
        Interval(QAdd(MediumEntry.rec.t, Q(1, 10000)), INFINITY), HitRecordDefault, md_rnd)

CrossedTwice ==
    MediumEntry.hit /\ MediumExit.hit /\ QLt(MediumEntry.rec.t, MediumExit.rec.t)

ClippedEntry == QMax(MediumEntry.rec.t, md_t.min)

ClippedExit == QMin(MediumExit.rec.t, md_t.max)

\* the length along the ray of the clipped segment
SegmentLength == QMul(QSub(ClippedExit, ClippedEntry), Norm(md_ray.dir))

\* the free path -ln(U) / density
SampledDistance == QDiv(QNeg(NextLn(md_rnd)), md_density)

\* C21: ConstantMedium::hit reports a hit only if the boundary is crossed
\* twice, an entry and a later exit, the two clipped to the search interval
\* leave a non-empty segment, and the sampled distance does not exceed the
\* segment's length; the reported t lies between the clipped entry and the
\* clipped exit; a sampled distance longer than the segment is a miss.
C21_MediumHitInsideSegment ==
    md_result # None =>
        /\ md_result.hit =>
               /\ CrossedTwice
               /\ QLt(ClippedEntry, ClippedExit)
               /\ QLe(SampledDistance, SegmentLength)
               /\ QLe(ClippedEntry, md_result.rec.t)
               /\ QLe(md_result.rec.t, ClippedExit)
        /\ (CrossedTwice /\ QLt(SegmentLength, SampledDistance)) => ~md_result.hit

\* a ray that starts inside the sphere: the entry lies behind the origin, the
\* segment is cut by the interval, and the free path ends inside it
C21_Witness ==
    /\ md_result # None /\ md_result.hit
    /\ md_medium.boundary = SphereA
    /\ QLt(MediumEntry.rec.t, I(0))
    /\ ClippedExit = md_t.max
    /\ QLt(md_result.rec.t, ClippedExit)

----------------------------------------------------------------------------
(* SpecSphere: a Sphere and one query of its hit, the roots of the          *)
(* quadratic lying inside, outside and on the bounds of the interval        *)

Spheres == {SphereA, SphereB, SphereNew(P3(1, 1, 1), I(1), "red")}

\* rays that cross the spheres, start inside them, touch them and miss them
SphereRays ==
    {Ray(P3(3, 0, 10), P3(0, 0, -1), I(0)),
     Ray(P3(3, 0, 10), P3(0, 0, -2), Q(1, 2)),
     Ray(P3(0, 0, 0), P3(0, 0, 2), I(0)),
     Ray(P3(5, 0, 10), P3(0, 0, -1), I(0)),
     Ray(P3(1, 1, 10), P3(0, 0, -1), I(0)),
     Ray(P3(9, 9, 0), P3(0, 0, 1), I(0))}

SphereIntervals ==
    {Interval(TMinBias, INFINITY), Interval(TMinBias, I(6)), Interval(I(6), I(20)),
     Interval(I(7), I(14)), Interval(I(7), I(15)), Interval(I(-20), I(-1)),
     Interval(I(-20), I(20)), Interval(I(0), I(10)), Interval(I(10), I(12))}

InitSphere ==
    /\ IdleAabb /\ IdleHit /\ IdleMix /\ IdleColor /\ IdlePixel /\ IdleRender /\ IdlePdf
    /\ IdleTranslate /\ IdleScatter /\ IdleBox /\ IdleTexture /\ IdleMedium
    /\ IdleGamma /\ IdleBuild
    /\ sp_sphere = None /\ sp_ray = None /\ sp_t = None /\ sp_result = None

\* Sphere::new, Sphere::new_moving
TakeSphere(s) ==
    /\ sp_sphere = None
    /\ sp_sphere' = s
    /\ UNCHANGED <<sp_ray, sp_t, sp_result>>

\* sphere.hit(r, ray_t, &mut rec), on the rays whose square root is exact
HitSphere(r, ray_t) ==
    /\ sp_sphere # None
    /\ sp_result = None
    /\ Representable(sp_sphere, r)
    /\ sp_ray' = r
    /\ sp_t' = ray_t
    /\ sp_result' = Hit(sp_sphere, r, ray_t, HitRecordDefault, RndSource(<<I(-1)>>))
    /\ UNCHANGED sp_sphere

NextSphere ==
    /\ \/ \E s \in Spheres : TakeSphere(s)
       \/ \E r \in SphereRays, ray_t \in SphereIntervals : HitSphere(r, ray_t)
    /\ UNCHANGED notSphere

SpecSphere == InitSphere /\ [][NextSphere]_vars

\* the point of the ray at t lies on the sphere, at the ray's time
OnSphere(t) ==
    LET d == VSub(RayAt(sp_ray, t), RayAt(sp_sphere.center, sp_ray.time))
    IN  NormSquared(d) = QMul(sp_sphere.radius, sp_sphere.radius)

\* the sum of the two roots of the quadratic, -2 half_b / a
RootSum ==
    QDiv(QMul(I(-2), VDot(VSub(sp_ray.orig, RayAt(sp_sphere.center, sp_ray.time)),
                           sp_ray.dir)),
         NormSquared(sp_ray.dir))

\* the root that t is not (t itself for a double root)
OtherRoot(t) == QSub(RootSum, t)

StrictlyInside(t) == QLt(sp_t.min, t) /\ QLt(t, sp_t.max)

\* the smaller root, from the larger one when there are real roots
SmallerRoot ==
    LET half == QDiv(RootSum, I(2))
    IN  QSub(half, QSqrt(QDiv(SphereDiscriminant(sp_sphere, sp_ray),
                              QMul(NormSquared(sp_ray.dir), NormSquared(sp_ray.dir)))))

HasRealRoots == QLe(I(0), SphereDiscriminant(sp_sphere, sp_ray))

\* C23: for a ray whose quadratic has real roots r1 <= r2 and every search
\* interval, Sphere::hit returns r1 if r1 lies strictly inside the interval,
\* otherwise r2 if r2 lies strictly inside it, otherwise no hit: the t returned
\* is the smallest root strictly inside the interval.
C23_SmallestRootInside ==
    (sp_result # None /\ HasRealRoots) =>
        LET r1 == SmallerRoot
            r2 == OtherRoot(SmallerRoot)
        IN  /\ OnSphere(r1) /\ OnSphere(r2) /\ QLe(r1, r2)
            /\ sp_result.hit <=> (StrictlyInside(r1) \/ StrictlyInside(r2))
            /\ sp_result.hit =>
                   /\ sp_result.rec.t = (IF StrictlyInside(r1) THEN r1 ELSE r2)
                   /\ OnSphere(sp_result.rec.t)
                   /\ StrictlyInside(sp_result.rec.t)
                   /\ StrictlyInside(OtherRoot(sp_result.rec.t)) =>
                          QLe(sp_result.rec.t, OtherRoot(sp_result.rec.t))

\* the near root lies on the lower bound of the interval, so the far root is
\* the one returned
C23_Witness ==
    /\ sp_result # None /\ sp_result.hit
    /\ HasRealRoots
    /\ SmallerRoot = sp_t.min
    /\ sp_result.rec.t = OtherRoot(SmallerRoot)
    /\ QLt(SmallerRoot, sp_result.rec.t)

----------------------------------------------------------------------------
(* SpecGamma: rendering/color.rs, color_to_rgb_with_samples on one colour *)

\* the f64 that is the square root of x (x >= 0 or +inf), kept by its square
Root(x) == [root_of |-> x]

\* a plausible slip: the component is handed on without the square root
linear_to_gammaSlip(linear_component) ==
    IF QLt(I(0), linear_component)
    THEN Root(QMul(linear_component, linear_component))
    ELSE Root(I(0))

\* linear_to_gamma: the square root of a positive component, else 0.0
linear_to_gamma(linear_component) ==
    IF QLt(I(0), linear_component) THEN Root(linear_component) ELSE Root(I(0))

\* Interval::new(0.000, 0.999), the bounds kept by their squares
intensity == [min |-> Root(I(0)), max |-> Root(Q(998001, 1000000))]

\* Interval::clamp on a square root
IntervalClamp(iv, x) ==
    IF QLt(x.root_of, iv.min.root_of) THEN iv.min
    ELSE IF QLt(iv.max.root_of, x.root_of) THEN iv.max
    ELSE x

\* (256.0 * x) as u8 for x = sqrt(n / d) within intensity: the floor of
\* sqrt(65536 * n / d), which is the square root of floor(65536 * n / d)
ByteOf(x) ==
    LET n == x.root_of[1]
        d == x.root_of[2]
        whole == (256 * n) \div d
        rest == (256 * n) % d
        scaled == whole * 256 + (256 * rest) \div d
        k == ISqrt(scaled)
    IN  IF k > 255 THEN 255 ELSE k

\* one channel of color_to_rgb_with_samples
ChannelByte(c, samples_per_pixel_) ==
    ByteOf(IntervalClamp(intensity,
                         linear_to_gamma(AveragedChannel(c, samples_per_pixel_))))

color_to_rgb_with_samples(pixel_color, samples_per_pixel_) ==
    <<ChannelByte(pixel_color[1], samples_per_pixel_),
      ChannelByte(pixel_color[2], samples_per_pixel_),
      ChannelByte(pixel_color[3], samples_per_pixel_)>>

\* accumulated channels: negative, NaN, infinite, tiny, and large ones
AccumulatedChannels ==
    {NEG_INFINITY, I(-3), I(0), Q(1, 1000), Q(1, 4), Q(1, 3), Q(1, 2),
     Q(249, 250), I(1), I(3), I(2000), INFINITY, NAN}

AccumulatedColors ==
    {<<x, y, z>> : x \in AccumulatedChannels, y \in {NAN, I(1)}, z \in {I(-3), I(3), INFINITY}}

InitGamma ==
    /\ IdleAabb /\ IdleHit /\ IdleMix /\ IdleColor /\ IdlePixel /\ IdleRender
    /\ IdlePdf /\ IdleTranslate /\ IdleScatter /\ IdleBox /\ IdleTexture
    /\ IdleMedium /\ IdleSphere /\ IdleBuild
    /\ gm_color = None /\ gm_samples = None /\ gm_rgb = None

\* render: img.put_pixel(i, j, color_to_rgb_with_samples(&color, samples_per_pixel))
ConvertColor(pixel_color, samples) ==
    /\ gm_color' = pixel_color
    /\ gm_samples' = samples
    /\ gm_rgb' = color_to_rgb_with_samples(pixel_color, samples)

NextGamma ==
    /\ \E pixel_color \in AccumulatedColors, samples \in 1..MaxSamples :
           ConvertColor(pixel_color, samples)
    /\ UNCHANGED notGamma

SpecGamma == InitGamma /\ [][NextGamma]_vars

\* the averaged channel c / samples
MeanOf(c) == QDiv(c, I(gm_samples))

\* byte is floor(256 * clamp(sqrt(max(mean, 0)), 0, 0.999)): 255 from
\* (255 / 256)^2 on, as 255 / 256 <= 0.999 and 256 * 0.999 < 256, and below
\* that the k with (k / 256)^2 <= mean < ((k + 1) / 256)^2
IsGammaByte(byte, mean) ==
    IF QLe(Q(255 * 255, 65536), mean) THEN byte = 255
    ELSE /\ QLe(Q(byte * byte, 65536), mean)
         /\ QLt(mean, Q((byte + 1) * (byte + 1), 65536))

\* C25: for every accumulated colour (negative, NaN and arbitrarily large
\* components included) and every sample count >= 1, each channel of the
\* pixel is floor(256 * clamp(sqrt(max(c / samples, 0)), 0, 0.999)), a byte in
\* 0..255; a NaN or non-positive component gives 0.
C25_GammaByte ==
    gm_rgb # None =>
        \A ch \in 1..3 :
            /\ gm_rgb[ch] \in 0..255
            /\ IF IsNaN(gm_color[ch]) \/ QLe(gm_color[ch], I(0))
               THEN gm_rgb[ch] = 0
               ELSE IsGammaByte(gm_rgb[ch], MeanOf(gm_color[ch]))

\* a colour with a mid-range, a NaN and an infinite channel, four samples:
\* sqrt(1 / 4) = 0.5 gives 128, NaN gives 0, +inf gives 255
C25_Witness ==
    /\ gm_rgb # None
    /\ gm_samples = 4
    /\ gm_color = <<I(1), NAN, INFINITY>>
    /\ gm_rgb = <<128, 0, 255>>

----------------------------------------------------------------------------
(* SpecBuild: HittableList::add and clear, then BvhNode::new with the calls *)
(* of from_slice run one at a time                                          *)

\* most objects a list is given before the tree is built
MaxBuild == 5

\* from_slice calls after which the run is no longer followed
MaxCalls == 12

\* three spheres apart on x and y, and an empty list, which has no bounding box
BuildCatalogue ==
    {SphereNew(P3(0, 0, 0), I(1), "red"),
     SphereNew(P3(4, 0, 0), I(1), "green"),
     SphereNew(P3(-3, 7, 0), I(2), "blue"),
     HittableListNew}

InitBuild ==
    /\ IdleAabb /\ IdleHit /\ IdleMix /\ IdleColor /\ IdlePixel /\ IdleRender
    /\ IdlePdf /\ IdleTranslate /\ IdleScatter /\ IdleBox /\ IdleTexture
    /\ IdleMedium /\ IdleSphere /\ IdleGamma
    /\ bd_list = HittableListNew
    /\ bd_added = <<>>
    /\ bd_cleared = FALSE
    /\ bd_pc = "adding"
    /\ bd_stack = <<>>
    /\ bd_calls = 0
    /\ bd_tree = None

\* list.add(object)
BuildAdd(object) ==
    /\ bd_pc = "adding"
    /\ Len(bd_list.objects) < MaxBuild
    /\ bd_list' = HittableListAdd(bd_list, object)
    /\ bd_added' = Append(bd_added, object)
    /\ UNCHANGED <<bd_cleared, bd_pc, bd_stack, bd_calls, bd_tree>>

\* list.clear()
BuildClear ==
    /\ bd_pc = "adding"
    /\ bd_list' = HittableListClear(bd_list)
    /\ bd_added' = <<>>
    /\ bd_cleared' = TRUE
    /\ UNCHANGED <<bd_pc, bd_stack, bd_calls, bd_tree>>

\* a call from_slice(objects, start, end), by the slice it works on
SliceCall(slice, recursive, parent_span) ==
    [objects |-> slice, recursive |-> recursive, parent_span |-> parent_span]

\* BvhNode::new(&list): from_slice(&list.objects, 0, list.objects.len())
BuildNew ==
    /\ bd_pc = "adding"
    /\ bd_pc' = "building"
    /\ bd_stack' = <<SliceCall(bd_list.objects, FALSE, 0)>>
    /\ UNCHANGED <<bd_list, bd_added, bd_cleared, bd_calls, bd_tree>>

\* the calls one run of from_slice on slice makes: none for one or two
\* objects, else one for each half of the sorted slice
CallsOfSlice(slice) ==
    LET object_span == Len(slice)
        axis == LongestAxis(SliceBox(slice, AabbEmpty))
        sorted_objects == SortByBox(slice, axis)
        mid == object_span \div 2
    IN  IF object_span = 1 \/ object_span = 2 THEN <<>>
        ELSE <<SliceCall(SubSeq(sorted_objects, 1, mid), TRUE, object_span),
               SliceCall(SubSeq(sorted_objects, mid + 1, Len(sorted_objects)), TRUE,
                         object_span)>>

\* the call on top of the stack runs up to its own recursive calls; when no
\* call is left, new returns the tree
FromSliceStep ==
    /\ bd_pc = "building"
    /\ Len(bd_stack) > 0
    /\ bd_calls < MaxCalls
    /\ bd_calls' = bd_calls + 1
    /\ bd_stack' = CallsOfSlice(Head(bd_stack).objects) \o Tail(bd_stack)
    /\ IF Len(bd_stack') = 0
       THEN bd_pc' = "built" /\ bd_tree' = BvhNodeNew(bd_list)
       ELSE UNCHANGED <<bd_pc, bd_tree>>
    /\ UNCHANGED <<bd_list, bd_added, bd_cleared>>

NextBuild ==
    /\ \/ \E object \in BuildCatalogue : BuildAdd(object)
       \/ BuildClear
       \/ BuildNew
       \/ FromSliceStep
    /\ UNCHANGED notBuild

SpecBuild == InitBuild /\ [][NextBuild]_vars

\* the boxes of the objects that have one
BoxesOf(objs) ==
    {BoundingBox(objs[i]) : i \in {j \in DOMAIN objs : BoundingBox(objs[j]) # None}}

\* b is the union of the boxes of objs: the empty box when there is none, else
\* on every axis the least of the lower and the greatest of the upper bounds
IsUnionBox(b, objs) ==
    IF BoxesOf(objs) = {} THEN b = AabbEmpty
    ELSE \A axis \in 0..2 :
             /\ \A bx \in BoxesOf(objs) :
                    /\ QLe(AxisInterval(b, axis).min, AxisInterval(bx, axis).min)
                    /\ QLe(AxisInterval(bx, axis).max, AxisInterval(b, axis).max)
             /\ \E bx \in BoxesOf(objs) : AxisInterval(bx, axis).min = AxisInterval(b, axis).min
             /\ \E bx \in BoxesOf(objs) : AxisInterval(bx, axis).max = AxisInterval(b, axis).max

\* how often x occurs in the sequence
Occurrences(objs, x) == Cardinality({i \in DOMAIN objs : objs[i] = x})

SameObjects(a, b) ==
    /\ Len(a) = Len(b)
    /\ \A i \in DOMAIN a : Occurrences(a, a[i]) = Occurrences(b, a[i])

RECURSIVE TreeObjects(_, _)
\* the objects at the leaves of a tree built over n objects, left to right
TreeObjects(node, n) ==
    IF n = 1 THEN <<node.left>>
    ELSE IF n = 2 THEN <<node.left, node.right>>
    ELSE TreeObjects(node.left, n \div 2) \o TreeObjects(node.right, n - n \div 2)

RECURSIVE TreeOverSlice(_, _)
\* node is a tree over the objects of slice: its box is their union, its
\* leaves are they, and above two objects the left subtree holds the
\* floor(n / 2) objects that come first by the lower bound on the longest axis
TreeOverSlice(node, slice) ==
    LET n == Len(slice)
        axis == LongestAxis(node.bbox)
        l == TreeObjects(node.left, n \div 2)
        r == TreeObjects(node.right, n - n \div 2)
    IN  /\ IsUnionBox(node.bbox, slice)
        /\ IF n = 1 THEN node.left = slice[1] /\ node.right = slice[1]
           ELSE IF n = 2 THEN SameObjects(<<node.left, node.right>>, slice)
           ELSE /\ SameObjects(l \o r, slice)
                /\ Len(l) = n \div 2
                /\ \A i \in DOMAIN l, j \in DOMAIN r : ~BoxLess(r[j], l[i], axis)
                /\ TreeOverSlice(node.left, l)
                /\ TreeOverSlice(node.right, r)

\* C27: in the tree BvhNode::new builds from a non-empty list, every node's box
\* is the union of the boxes of the objects below it, the leaves are exactly
\* the objects of the list, and a node over more than two objects has the
\* floor(n / 2) objects with the least lower bounds on its longest axis in the
\* left subtree and the remaining ones in the right subtree.
C27_TreeCoversList ==
    bd_pc = "built" => TreeOverSlice(bd_tree, bd_list.objects)

\* a tree over five objects whose leaves are not in the order of the list
C27_Witness ==
    /\ bd_pc = "built"
    /\ Len(bd_list.objects) = 5
    /\ TreeObjects(bd_tree, 5) # bd_list.objects
    /\ BoundingBox(bd_list.objects[1]) = None

\* C29 as stated: BvhNode::new terminates for every list, the empty one
\* included, as every recursive call of from_slice is on a non-empty slice
\* that is strictly smaller than its caller's.
C29_RecursionShrinks ==
    \A i \in DOMAIN bd_stack :
        bd_stack[i].recursive =>
            /\ Len(bd_stack[i].objects) >= 1
            /\ Len(bd_stack[i].objects) < bd_stack[i].parent_span

\* C30: after any sequence of add and clear the list holds exactly the objects
\* added since the last clear, in the order they were added; its stored box is
\* the union of the boxes of these objects, the empty box when there is none;
\* bounding_box() is None exactly when the list is empty.
C30_ListBoxIsUnion ==
    bd_pc # "idle" =>
        /\ bd_list.objects = bd_added
        /\ IsUnionBox(bd_list.bbox, bd_added)
        /\ (BoundingBox(bd_list) = None <=> Len(bd_added) = 0)

\* after a clear, an object without a box was added first, then one with a box
C30_Witness ==
    /\ bd_pc = "adding"
    /\ bd_cleared
    /\ Len(bd_added) = 2
    /\ BoundingBox(bd_added[1]) = None
    /\ BoundingBox(bd_added[2]) # None

====
